---- MODULE Spec2Model ----
(***************************************************************************)
(* Background task execution core of claude-code-telegram:                 *)
(*   src/tasks/manager.py     TaskManager (start_task, stop_task, recover, *)
(*                            _run_task, _run_task_with_cleanup)           *)
(*   src/tasks/repository.py  TaskRepository (the background_tasks table)  *)
(*   src/tasks/heartbeat.py   HeartbeatService (tracking map)              *)
(*   src/llm/claude_provider.py ClaudeProvider.execute                     *)
(*   src/bot/handlers/task_handlers.py  taskstop_command                   *)
(*                                                                         *)
(* Everything runs as asyncio coroutines on one event loop.  A coroutine   *)
(* only loses control at an await that really suspends, so one action of   *)
(* the model is one resumption of one coroutine: the effect of the         *)
(* operation it was awaiting, followed by the code up to the next          *)
(* suspension.  The pc of a coroutine names the operation it is awaiting.  *)
(* Repository calls, the retry sleep, the provider call and awaiting       *)
(* another asyncio task suspend; EventBus.publish and HeartbeatService     *)
(* .start do not.                                                          *)
(***************************************************************************)
EXTENDS Integers, Sequences, FiniteSets, TLC

\* ---------------------------------------------------------------- bounds
MaxTasks == 2        \* task ids that uuid4 can hand out to concurrent callers
NumCallers == 2      \* concurrent start_task callers
NumStoppers == 1     \* concurrent /taskstop handlers
MaxTurns == 2        \* stream events the provider emits per task
MaxDelta == 2        \* largest cost delta of one stream event
MaxStops == 2        \* direct stop_task calls per task id
MaxLoops == 2        \* supervisor loops HeartbeatService.start can create
MaxBeats == 1        \* events the supervisors of one task publish
MaxContent == 3      \* longest response content, in characters
MaxTime == 2         \* latest finish timestamp in a stored table

\* -------------------------------------------------------------- settings
max_concurrent_tasks == 1
task_max_cost == 1
hb_interval == 1     \* HeartbeatService interval, the unit of time
hb_timeout == 1      \* HeartbeatService timeout, in the same unit
summary_limit == 2   \* characters of the response kept as result_summary

Ids == 1..MaxTasks
Callers == 1..NumCallers
Stoppers == 1..NumStoppers
Loops == 1..MaxLoops
Writers == {1, 2}    \* two concurrent callers of TaskRepository.update_progress
Projects == {"p1", "p2"}
Deltas == 0..MaxDelta
RespCosts == {1}

RESTART_MESSAGE == "restart"
COST_MESSAGE == "cost limit"
DEFAULT_LLM_ERROR == "LLM execution failed"

Terminal == {"completed", "failed", "stopped"}

VARIABLES
  records,        \* background_tasks table: task id -> row ("none" = no row)
  running_tasks,  \* TaskManager._running_tasks: ids that have a handle
  hb_tasks,       \* HeartbeatService._tasks: ids with a supervisor loop
  hb_loop,        \* the asyncio task running HeartbeatService._loop, per id
  unit,           \* the asyncio task running _run_task_with_cleanup, per id
  events,         \* events published on the bus, per task id, in order
  call,           \* start_task invocations, per caller
  stopper,        \* taskstop_command invocations, per handler
  rec,            \* the recover() invocation
  id_pool,        \* task ids that uuid4 has not handed out yet
  llm,            \* one ClaudeProvider.execute call
  stop_returns,   \* stop_task calls that have returned, per task id
  calls,          \* provider.execute call count, per task id
  outcomes,       \* how each attempt of a task ended, per task id
  hs_tasks,       \* a HeartbeatService on its own: _tasks, id -> loop or 0
  hs_loops,       \* the asyncio tasks it created to run _loop
  hs_calls,       \* its stop and stop_all invocations, per caller
  repo_calls,     \* update_progress invocations from outside the manager
  written,        \* what their UPDATE statements were given, per task id
  fin,            \* one successful attempt of _run_task, from the response on
  query           \* a background_tasks table and one get_last_completed call

\* the repository called directly
repo_vars == <<repo_calls, written>>

\* the success path and the continue query taken on their own
lone_vars == <<fin, query>>

\* the HeartbeatService taken on its own
hs_vars == <<hs_tasks, hs_loops, hs_calls>>

\* the task manager, its repository and its provider
mgr_vars == <<records, running_tasks, hb_tasks, hb_loop, unit, call, stopper,
              rec, id_pool, llm, stop_returns, calls, outcomes, repo_calls,
              written>>

vars == <<records, running_tasks, hb_tasks, hb_loop, unit, events, call,
          stopper, rec, id_pool, llm, stop_returns, calls, outcomes,
          hs_tasks, hs_loops, hs_calls, repo_calls, written, fin, query>>

\* ----------------------------------------------------------- data model
\* BackgroundTask row; the defaults are those of the model class.  idle is
\* the time since last_activity_at, in heartbeat intervals.
BackgroundTask(p) ==
  [status |-> "running", project_path |-> p, finished_at |-> FALSE,
   total_cost |-> 0, total_turns |-> 0, last_output |-> "None",
   error_message |-> "None", idle |-> 0]

NoRecord ==
  [status |-> "none", project_path |-> "none", finished_at |-> FALSE,
   total_cost |-> 0, total_turns |-> 0, last_output |-> "None",
   error_message |-> "None", idle |-> 0]

\* locals of _run_task: attempt, accumulated_cost, last_error; the stream
\* event being written (pend_*); the response's cost; a pending cancel()
NoUnit ==
  [pc |-> "none", attempt |-> 0, accumulated_cost |-> 0,
   last_error |-> "None", cancel |-> FALSE,
   pend_cost |-> 0, pend_out |-> "None", resp_cost |-> 0]

\* how one attempt of _run_task ended, with the failure's message
Outcome(kind, msg) == [kind |-> kind, msg |-> msg]

Event(type, cost, msg, out) ==
  [type |-> type, cost |-> cost, error_message |-> msg, last_output |-> out]

\* _run_task before its provider call has returned
IdleRun == [pc |-> "idle"]

\* no table and no get_last_completed call
NoQuery == [pc |-> "none"]

\* an asyncio task that HeartbeatService.start has not created yet.
\* stopped (ghost): a stop(task_id) that was called while the loop was
\* attached for that id has returned.
NoLoop ==
  [task_id |-> 0, pc |-> "none", cancel |-> FALSE, result |-> "none",
   stopped |-> FALSE]

\* no stop or stop_all in progress.  clean (ghost): no start has created a
\* loop since the stop_all began; returns (ghost) flips when a stop_all
\* returns; attached (ghost): the loops that were attached for the id when
\* stop(id) was called.
IdleStop ==
  [op |-> "idle", keys |-> {}, awaiting |-> 0, clean |-> TRUE,
   returns |-> FALSE, attached |-> {}]

\* no update_progress in progress
IdleWrite ==
  [pc |-> "idle", task_id |-> 0, cost |-> 0, last_output |-> "None"]

IdleCall(result) ==
  [pc |-> "idle", project_path |-> "none", task_id |-> 0, result |-> result]

\* ------------------------------------------------------- TaskRepository
create(recs, id, task) == [recs EXCEPT ![id] = task]

\* update_status as an upsert: a missing row is created by the update
update_status_bug_upsert(recs, id, status, err) ==
  [recs EXCEPT ![id] =
     [@ EXCEPT !.status = status,
               !.finished_at =
                  IF status \in {"completed", "failed"} THEN TRUE ELSE @,
               !.error_message = IF err = "keep" THEN @ ELSE err,
               !.idle = 0]]

\* UPDATE ... SET status, [finished_at], [error_message] WHERE task_id = id;
\* a missing row is left missing.  err = "keep" when no error_message kwarg.
update_status(recs, id, status, err) ==
  IF recs[id].status = "none" THEN recs
  ELSE [recs EXCEPT ![id] =
          [@ EXCEPT !.status = status,
                    !.finished_at =
                       IF status \in {"completed", "failed"} THEN TRUE ELSE @,
                    !.error_message = IF err = "keep" THEN @ ELSE err,
                    !.idle = 0]]

\* update_progress storing the delta in place of adding it
update_progress_bug_overwrite(recs, id, cost, last_output) ==
  IF recs[id].status = "none" THEN recs
  ELSE [recs EXCEPT ![id] =
          [@ EXCEPT !.total_cost = cost,
                    !.total_turns = @ + 1,
                    !.last_output = last_output,
                    !.idle = 0]]

\* UPDATE ... SET total_cost = total_cost + cost, total_turns =
\* total_turns + 1, last_output = last_output, last_activity_at = now
\* WHERE task_id = id: one statement; last_output is bound as given, NULL
\* ("None") when the caller has none
update_progress(recs, id, cost, last_output) ==
  IF recs[id].status = "none" THEN recs
  ELSE [recs EXCEPT ![id] =
          [@ EXCEPT !.total_cost = @ + cost,
                    !.total_turns = @ + 1,
                    !.last_output = last_output,
                    !.idle = 0]]

\* the orphans query returning the first running record only
get_all_running_bug_first(recs) ==
  LET running == {t \in Ids : recs[t].status = "running"} IN
    {t \in running : \A u \in running : t <= u}

\* SELECT * FROM background_tasks WHERE status = 'running'
get_all_running(recs) == {t \in Ids : recs[t].status = "running"}

get_running_for_project(recs, p) ==
  {t \in Ids : recs[t].status = "running" /\ recs[t].project_path = p}

count_running(recs) == Cardinality(get_all_running(recs))

\* ------------------------------------------------------------------ Init
IdleProvider ==
  [pc |-> "idle", has_callback |-> FALSE, streamed |-> 0,
   callback_exc |-> "None", transport_exc |-> "None",
   outcome |-> [kind |-> "none"]]

InitWith(pool) ==
  /\ records = [t \in Ids |-> NoRecord]
  /\ running_tasks = {}
  /\ hb_tasks = {}
  /\ hb_loop = [t \in Ids |-> "none"]
  /\ unit = [t \in Ids |-> NoUnit]
  /\ events = [t \in Ids |-> <<>>]
  /\ call = [c \in Callers |-> IdleCall("none")]
  /\ stopper = [s \in Stoppers |-> [pc |-> "idle", task_id |-> 0]]
  /\ rec = [pc |-> "idle", orphaned |-> {}, began |-> {}]
  /\ id_pool = pool
  /\ llm = IdleProvider
  /\ stop_returns = [t \in Ids |-> 0]
  /\ calls = [t \in Ids |-> 0]
  /\ outcomes = [t \in Ids |-> <<>>]
  /\ hs_tasks = [t \in Ids |-> 0]
  /\ hs_loops = [l \in Loops |-> NoLoop]
  /\ hs_calls = [c \in Stoppers |-> IdleStop]
  /\ repo_calls = [w \in Writers |-> IdleWrite]
  /\ written = [t \in Ids |-> [cost |-> 0, turns |-> 0]]
  /\ fin = IdleRun
  /\ query = NoQuery

\* ------------------------------------------------- TaskManager.start_task
MinOf(S) == CHOOSE t \in S : \A u \in S : t <= u

\* the limit check with > in place of >=
capacity_reached_bug_strict(running_count) ==
  running_count > max_concurrent_tasks

capacity_reached(running_count) == running_count >= max_concurrent_tasks

\* both admission errors are raised as ValueError; the message tells which
Raise(c, error) == call' = [call EXCEPT ![c] = IdleCall(error)]

\* the call is made; it suspends in repo.get_running_for_project
start_task(c, p) ==
  /\ call[c].pc = "idle"
  /\ call' = [call EXCEPT ![c] = [pc |-> "get_running_for_project",
                                  project_path |-> p, task_id |-> 0,
                                  result |-> "none"]]
  /\ UNCHANGED <<lone_vars, repo_vars, hs_vars, hb_loop, stop_returns, llm,
                 records, running_tasks, hb_tasks, unit, events, stopper,
                 rec, id_pool, calls, outcomes>>

\* the per-project check, dropping the handle of the task it found running
start_task_check_project_bug_evict(c) ==
  /\ call[c].pc = "get_running_for_project"
  /\ IF get_running_for_project(records, call[c].project_path) # {}
     THEN /\ Raise(c, "ProjectBusy")
          /\ running_tasks' = running_tasks \
               get_running_for_project(records, call[c].project_path)
     ELSE /\ call' = [call EXCEPT ![c] = [@ EXCEPT !.pc = "count_running"]]
          /\ UNCHANGED running_tasks
  /\ UNCHANGED <<lone_vars, repo_vars, hs_vars, hb_loop, stop_returns, llm,
                 records, hb_tasks, unit, events, stopper, rec, id_pool,
                 calls, outcomes>>

\* per-project exclusivity check; suspends in repo.count_running
start_task_check_project(c) ==
  /\ call[c].pc = "get_running_for_project"
  /\ IF get_running_for_project(records, call[c].project_path) # {}
     THEN Raise(c, "ProjectBusy")
     ELSE call' = [call EXCEPT ![c] = [@ EXCEPT !.pc = "count_running"]]
  /\ UNCHANGED <<lone_vars, repo_vars, hs_vars, hb_loop, stop_returns, llm,
                 records, running_tasks, hb_tasks, unit, events, stopper,
                 rec, id_pool, calls, outcomes>>

\* global limit check, then uuid4 draws the id; suspends in repo.create
start_task_check_count(c) ==
  /\ call[c].pc = "count_running"
  /\ IF capacity_reached(count_running(records))
     THEN /\ Raise(c, "CapacityExceeded")
          /\ UNCHANGED id_pool
     ELSE /\ id_pool # {}
          /\ call' = [call EXCEPT ![c] = [@ EXCEPT !.pc = "create",
                                              !.task_id = MinOf(id_pool)]]
          /\ id_pool' = id_pool \ {MinOf(id_pool)}
  /\ UNCHANGED <<lone_vars, repo_vars, hs_vars, hb_loop, stop_returns, llm,
                 records, running_tasks, hb_tasks, unit, events, stopper,
                 rec, calls, outcomes>>

\* task_id is the key of background_tasks: an INSERT of an id that is
\* already in the table fails
DuplicateId(recs, id) == recs[id].status # "none"

\* the global limit check passes and uuid4().hex[:8] draws an id that an
\* existing record already has; suspends in repo.create
start_task_check_count_collides(c, id) ==
  /\ call[c].pc = "count_running"
  /\ ~capacity_reached(count_running(records))
  /\ DuplicateId(records, id)
  /\ call' = [call EXCEPT ![c] = [@ EXCEPT !.pc = "create_duplicate",
                                          !.task_id = id]]
  /\ UNCHANGED <<lone_vars, repo_vars, hs_vars, hb_loop, stop_returns, llm,
                 records, running_tasks, hb_tasks, unit, events, stopper,
                 rec, id_pool, calls, outcomes>>

\* the INSERT fails; start_task has no handler around repo.create and
\* draws no second id: the error goes to the caller
start_task_create_duplicate(c) ==
  /\ call[c].pc = "create_duplicate"
  /\ DuplicateId(records, call[c].task_id)
  /\ Raise(c, "IntegrityError")
  /\ UNCHANGED <<lone_vars, repo_vars, hs_vars, hb_loop, stop_returns, llm,
                 records, running_tasks, hb_tasks, unit, events, stopper,
                 rec, id_pool, calls, outcomes>>

\* start_task without its publish
publish_started_bug_skip(evs, id) == evs

\* event_bus.publish(TaskStartedEvent(...))
publish_started(evs, id) ==
  [evs EXCEPT ![id] = Append(@, Event("Started", 0, "None", "None"))]

\* the row is inserted; publish Started, create the asyncio task, register
\* the handle, heartbeat.start, return the id
start_task_launch(c) ==
  /\ call[c].pc = "create"
  /\ LET id == call[c].task_id IN
       /\ records' = create(records, id, BackgroundTask(call[c].project_path))
       /\ events' = publish_started(events, id)
       /\ unit' = [unit EXCEPT ![id] = [NoUnit EXCEPT !.pc = "created"]]
       /\ running_tasks' = running_tasks \cup {id}
       /\ hb_tasks' = hb_tasks \cup {id}
       /\ hb_loop' = [hb_loop EXCEPT ![id] = "sleep"]
       /\ call' = [call EXCEPT ![c] = IdleCall("ok")]
  /\ UNCHANGED <<lone_vars, repo_vars, hs_vars, stop_returns, llm, stopper,
                 rec, id_pool, calls, outcomes>>

\* the steps of the launch that can raise, in the order start_task takes them
LaunchSteps == {"create", "publish", "create_task", "heartbeat_start"}

\* one step of the launch raises.  start_task has no handler around the
\* launch: what the earlier steps did stays, the later steps are not taken
\* and the exception goes to the caller.  A publish that raised has not
\* delivered the event.
start_task_launch_raises(c, at) ==
  /\ call[c].pc = "create"
  /\ LET id == call[c].task_id IN
       /\ records' = IF at = "create" THEN records
                     ELSE create(records, id,
                                 BackgroundTask(call[c].project_path))
       /\ events' = IF at \in {"create", "publish"} THEN events
                    ELSE publish_started(events, id)
       /\ IF at = "heartbeat_start"
          THEN /\ unit' = [unit EXCEPT ![id] =
                             [NoUnit EXCEPT !.pc = "created"]]
               /\ running_tasks' = running_tasks \cup {id}
          ELSE UNCHANGED <<unit, running_tasks>>
       /\ Raise(c, "LaunchError")
  /\ UNCHANGED <<lone_vars, repo_vars, hs_vars, hb_tasks, hb_loop,
                 stop_returns, llm, stopper, rec, id_pool, calls, outcomes>>

\* ------------------------------------ TaskManager._run_task_with_cleanup
\* finally: await heartbeat.stop(id) suspends only when a supervisor is
\* tracked (HeartbeatService.stop cancels and awaits it); then the handle
\* is popped and the unit is done.  The locals die with the coroutine.
Finally(t) ==
  IF t \in hb_tasks
  THEN /\ hb_tasks' = hb_tasks \ {t}
       /\ hb_loop' = [hb_loop EXCEPT ![t] = "done"]
       /\ unit' = [unit EXCEPT ![t] = [NoUnit EXCEPT !.pc = "heartbeat_stop"]]
       /\ UNCHANGED running_tasks
  ELSE /\ UNCHANGED <<hb_tasks, hb_loop>>
       /\ unit' = [unit EXCEPT ![t] = [NoUnit EXCEPT !.pc = "done"]]
       /\ running_tasks' = running_tasks \ {t}

\* first resumption of the asyncio task: attempt 0 calls provider.execute
unit_start(t) ==
  /\ unit[t].pc = "created" /\ ~unit[t].cancel
  /\ unit' = [unit EXCEPT ![t] = [@ EXCEPT !.pc = "execute"]]
  /\ calls' = [calls EXCEPT ![t] = @ + 1]
  /\ UNCHANGED <<lone_vars, repo_vars, hs_vars, hb_loop, stop_returns, llm,
                 records, running_tasks, hb_tasks, events, call, stopper,
                 rec, id_pool, outcomes>>

\* the provider emits a stream event: stream_callback adds the delta to the
\* local counter and suspends in repo.update_progress
stream_callback(t, cost_delta, output) ==
  /\ unit[t].pc = "execute" /\ ~unit[t].cancel
  /\ records[t].total_turns < MaxTurns
  /\ unit' = [unit EXCEPT ![t] =
                [@ EXCEPT !.pc = "update_progress",
                          !.accumulated_cost = @ + cost_delta,
                          !.pend_cost = cost_delta,
                          !.pend_out = output]]
  /\ UNCHANGED <<lone_vars, repo_vars, hs_vars, hb_loop, stop_returns, llm,
                 records, running_tasks, hb_tasks, events, call, stopper,
                 rec, id_pool, calls, outcomes>>

\* the limit check with >= in place of >
cost_exceeded_bug_inclusive(accumulated_cost) ==
  accumulated_cost >= task_max_cost

cost_exceeded(accumulated_cost) == accumulated_cost > task_max_cost

\* update_progress is written; the limit check either raises
\* CostLimitExceeded (caught by _run_task, which suspends in
\* update_status("failed")) or returns control to the provider
stream_callback_check(t) ==
  /\ unit[t].pc = "update_progress" /\ ~unit[t].cancel
  /\ records' = update_progress(records, t, unit[t].pend_cost,
                                unit[t].pend_out)
  /\ IF cost_exceeded(unit[t].accumulated_cost)
     THEN /\ unit' = [unit EXCEPT ![t] =
                        [@ EXCEPT !.pc = "update_status_cost",
                                  !.pend_cost = 0, !.pend_out = "None"]]
          /\ outcomes' = [outcomes EXCEPT ![t] =
                            Append(@, Outcome("cost_limit", COST_MESSAGE))]
     ELSE /\ unit' = [unit EXCEPT ![t] =
                        [@ EXCEPT !.pc = "execute",
                                  !.pend_cost = 0, !.pend_out = "None"]]
          /\ UNCHANGED outcomes
  /\ UNCHANGED <<lone_vars, repo_vars, hs_vars, hb_loop, stop_returns, llm,
                 running_tasks, hb_tasks, events, call, stopper, rec,
                 id_pool, calls>>

\* a loop of one attempt: the first failure already leaves the loop
attempt_failed_bug_no_retry(u, msg) ==
  [u EXCEPT !.last_error = msg, !.pc = "update_status_failed"]

\* except Exception: remember the error; the first failure goes to the
\* retry sleep, the second leaves the loop into update_status("failed")
attempt_failed(u, msg) ==
  IF u.attempt = 0
  THEN [u EXCEPT !.last_error = msg, !.attempt = 1, !.pc = "sleep"]
  ELSE [u EXCEPT !.last_error = msg, !.pc = "update_status_failed"]

\* provider.execute returns a response
provider_return(t, is_error, error_message, cost) ==
  /\ unit[t].pc = "execute" /\ ~unit[t].cancel
  /\ IF is_error
     THEN LET msg == IF error_message = "None" THEN DEFAULT_LLM_ERROR
                     ELSE error_message
          IN /\ unit' = [unit EXCEPT ![t] = attempt_failed(@, msg)]
             /\ outcomes' = [outcomes EXCEPT ![t] =
                               Append(@, Outcome("is_error", msg))]
     ELSE /\ unit' = [unit EXCEPT ![t] =
                        [@ EXCEPT !.pc = "collect_commits",
                                  !.resp_cost = cost]]
          /\ UNCHANGED outcomes
  /\ UNCHANGED <<lone_vars, repo_vars, hs_vars, hb_loop, stop_returns, llm,
                 records, running_tasks, hb_tasks, events, call, stopper,
                 rec, id_pool, calls>>

\* Failed published by the handler of each failed attempt
provider_raise_bug_publishes(t, error_message) ==
  /\ unit[t].pc = "execute" /\ ~unit[t].cancel
  /\ unit' = [unit EXCEPT ![t] = attempt_failed(@, error_message)]
  /\ outcomes' = [outcomes EXCEPT ![t] =
                    Append(@, Outcome("exception", error_message))]
  /\ events' = [events EXCEPT ![t] =
       Append(@, Event("Failed", unit[t].accumulated_cost, error_message,
                       ""))]
  /\ UNCHANGED <<lone_vars, repo_vars, hs_vars, hb_loop, stop_returns, llm,
                 records, running_tasks, hb_tasks, call, stopper, rec,
                 id_pool, calls>>

\* provider.execute raises an ordinary exception
provider_raise(t, error_message) ==
  /\ unit[t].pc = "execute" /\ ~unit[t].cancel
  /\ unit' = [unit EXCEPT ![t] = attempt_failed(@, error_message)]
  /\ outcomes' = [outcomes EXCEPT ![t] =
                    Append(@, Outcome("exception", error_message))]
  /\ UNCHANGED <<lone_vars, repo_vars, hs_vars, hb_loop, stop_returns, llm,
                 records, running_tasks, hb_tasks, events, call, stopper,
                 rec, id_pool, calls>>

\* a retry that starts the local cost counter again from zero
unit_retry_bug_resets_counter(t) ==
  /\ unit[t].pc = "sleep" /\ ~unit[t].cancel
  /\ unit' = [unit EXCEPT ![t] = [@ EXCEPT !.pc = "execute",
                                           !.accumulated_cost = 0]]
  /\ calls' = [calls EXCEPT ![t] = @ + 1]
  /\ UNCHANGED <<lone_vars, repo_vars, hs_vars, hb_loop, stop_returns, llm,
                 records, running_tasks, hb_tasks, events, call, stopper,
                 rec, id_pool, outcomes>>

\* a retry that starts the record's cost again from zero
unit_retry_bug_resets_cost(t) ==
  /\ unit[t].pc = "sleep" /\ ~unit[t].cancel
  /\ unit' = [unit EXCEPT ![t] = [@ EXCEPT !.pc = "execute"]]
  /\ calls' = [calls EXCEPT ![t] = @ + 1]
  /\ records' = [records EXCEPT ![t] = [@ EXCEPT !.total_cost = 0]]
  /\ UNCHANGED <<lone_vars, repo_vars, hs_vars, hb_loop, stop_returns, llm,
                 running_tasks, hb_tasks, events, call, stopper, rec, id_pool,
                 outcomes>>

\* the retry delay is over: attempt 1 calls provider.execute
unit_retry(t) ==
  /\ unit[t].pc = "sleep" /\ ~unit[t].cancel
  /\ unit' = [unit EXCEPT ![t] = [@ EXCEPT !.pc = "execute"]]
  /\ calls' = [calls EXCEPT ![t] = @ + 1]
  /\ UNCHANGED <<lone_vars, repo_vars, hs_vars, hb_loop, stop_returns, llm,
                 records, running_tasks, hb_tasks, events, call, stopper,
                 rec, id_pool, outcomes>>

\* _collect_commits is back; suspends in update_status("completed")
unit_commits(t) ==
  /\ unit[t].pc = "collect_commits" /\ ~unit[t].cancel
  /\ unit' = [unit EXCEPT ![t] = [@ EXCEPT !.pc = "update_status_completed"]]
  /\ UNCHANGED <<lone_vars, repo_vars, hs_vars, hb_loop, stop_returns, llm,
                 records, running_tasks, hb_tasks, events, call, stopper,
                 rec, id_pool, calls, outcomes>>

\* status completed is written, Completed is published, _run_task returns
unit_completed(t) ==
  /\ unit[t].pc = "update_status_completed" /\ ~unit[t].cancel
  /\ records' = update_status(records, t, "completed", "keep")
  /\ events' = [events EXCEPT ![t] =
       Append(@, Event("Completed",
                       unit[t].accumulated_cost + unit[t].resp_cost,
                       "None", "None"))]
  /\ outcomes' = [outcomes EXCEPT ![t] = Append(@, Outcome("ok", "None"))]
  /\ Finally(t)
  /\ UNCHANGED <<lone_vars, repo_vars, hs_vars, stop_returns, llm, call,
                 stopper, rec, id_pool, calls>>

\* the steps of an attempt after the provider's successful response
PostSteps == {"collect_commits", "update_status", "publish"}

\* one of these steps raises an ordinary exception (git output that does
\* not decode, a database error, a failing subscriber).  The steps are in
\* the same try block as the provider call, so except Exception takes the
\* error exactly as it takes a provider failure; a publish that raises comes
\* after update_status("completed") was written.
unit_step_raises(t, at) ==
  /\ ~unit[t].cancel
  /\ unit[t].pc = IF at = "collect_commits" THEN "collect_commits"
                  ELSE "update_status_completed"
  /\ records' = IF at = "publish"
                THEN update_status(records, t, "completed", "keep")
                ELSE records
  /\ unit' = [unit EXCEPT ![t] = attempt_failed(@, "step failed")]
  /\ outcomes' = [outcomes EXCEPT ![t] =
                    Append(@, Outcome("step_failed", at))]
  /\ UNCHANGED <<lone_vars, repo_vars, hs_vars, hb_loop, stop_returns, llm,
                 running_tasks, hb_tasks, events, call, stopper, rec, id_pool,
                 calls>>

\* except CostLimitExceeded: status failed is written, Failed is published
unit_failed_cost(t) ==
  /\ unit[t].pc = "update_status_cost" /\ ~unit[t].cancel
  /\ records' = update_status(records, t, "failed", COST_MESSAGE)
  /\ events' = [events EXCEPT ![t] =
       Append(@, Event("Failed", unit[t].accumulated_cost, COST_MESSAGE, ""))]
  /\ Finally(t)
  /\ UNCHANGED <<lone_vars, repo_vars, hs_vars, stop_returns, llm, call,
                 stopper, rec, id_pool, calls, outcomes>>

\* the final failure written without its Failed event
unit_failed_bug_no_event(t) ==
  /\ unit[t].pc = "update_status_failed" /\ ~unit[t].cancel
  /\ records' = update_status(records, t, "failed", unit[t].last_error)
  /\ Finally(t)
  /\ UNCHANGED <<lone_vars, repo_vars, hs_vars, stop_returns, llm, events,
                 call, stopper, rec, id_pool, calls, outcomes>>

\* all attempts exhausted: status failed is written, Failed is published
unit_failed(t) ==
  /\ unit[t].pc = "update_status_failed" /\ ~unit[t].cancel
  /\ records' = update_status(records, t, "failed", unit[t].last_error)
  /\ events' = [events EXCEPT ![t] =
       Append(@, Event("Failed", unit[t].accumulated_cost,
                       unit[t].last_error, ""))]
  /\ Finally(t)
  /\ UNCHANGED <<lone_vars, repo_vars, hs_vars, stop_returns, llm, call,
                 stopper, rec, id_pool, calls, outcomes>>

\* a finally that leaves the handle in the map
unit_cleanup_bug_keeps_handle(t) ==
  /\ unit[t].pc = "heartbeat_stop"
  /\ unit' = [unit EXCEPT ![t] = [NoUnit EXCEPT !.pc = "done"]]
  /\ UNCHANGED <<lone_vars, repo_vars, hs_vars, hb_loop, stop_returns, llm,
                 records, running_tasks, hb_tasks, events, call, stopper,
                 rec, id_pool, calls, outcomes>>

\* finally: heartbeat.stop is back (a CancelledError delivered while it
\* awaits the supervisor is swallowed by HeartbeatService.stop); pop handle
unit_cleanup(t) ==
  /\ unit[t].pc = "heartbeat_stop"
  /\ unit' = [unit EXCEPT ![t] = [NoUnit EXCEPT !.pc = "done"]]
  /\ running_tasks' = running_tasks \ {t}
  /\ UNCHANGED <<lone_vars, repo_vars, hs_vars, hb_loop, stop_returns, llm,
                 records, hb_tasks, events, call, stopper, rec, id_pool,
                 calls, outcomes>>

\* the repository write the unit is suspended in, if any
PendingWrite(t) ==
  CASE unit[t].pc = "update_progress" ->
         update_progress(records, t, unit[t].pend_cost, unit[t].pend_out)
    [] unit[t].pc = "update_status_completed" ->
         update_status(records, t, "completed", "keep")
    [] unit[t].pc = "update_status_cost" ->
         update_status(records, t, "failed", COST_MESSAGE)
    [] unit[t].pc = "update_status_failed" ->
         update_status(records, t, "failed", unit[t].last_error)
    [] OTHER -> records

\* CancelledError caught like any other exception of an attempt
unit_cancelled_bug_caught(t, committed) ==
  /\ unit[t].cancel
  /\ unit[t].pc \notin {"none", "done", "heartbeat_stop"}
  /\ records' = IF committed THEN PendingWrite(t) ELSE records
  /\ IF unit[t].pc = "created"
     THEN /\ unit' = [unit EXCEPT ![t] = [NoUnit EXCEPT !.pc = "done"]]
          /\ UNCHANGED <<hb_tasks, hb_loop, running_tasks>>
     ELSE IF unit[t].pc \in {"execute", "sleep"}
     THEN /\ unit' = [unit EXCEPT ![t] =
                        attempt_failed([@ EXCEPT !.cancel = FALSE],
                                       "cancelled")]
          /\ UNCHANGED <<hb_tasks, hb_loop, running_tasks>>
     ELSE Finally(t)
  /\ outcomes' = [outcomes EXCEPT ![t] =
                    Append(@, Outcome("cancelled", "None"))]
  /\ UNCHANGED <<lone_vars, repo_vars, hs_vars, stop_returns, llm, events,
                 call, stopper, rec, id_pool, calls>>

\* CancelledError is thrown into the unit at its suspension point.  A task
\* cancelled before its first step never enters the coroutine body; inside
\* the body the error is re-raised by _run_task and swallowed by
\* _run_task_with_cleanup, whose finally runs.  Cancelling the coroutine
\* does not recall a statement already handed to the database: the write
\* it was suspended in is either committed or lost.
unit_cancelled(t, committed) ==
  /\ unit[t].cancel
  /\ unit[t].pc \notin {"none", "done", "heartbeat_stop"}
  /\ records' = IF committed THEN PendingWrite(t) ELSE records
  /\ IF unit[t].pc = "created"
     THEN /\ unit' = [unit EXCEPT ![t] = [NoUnit EXCEPT !.pc = "done"]]
          /\ UNCHANGED <<hb_tasks, hb_loop, running_tasks>>
     ELSE Finally(t)
  /\ outcomes' = [outcomes EXCEPT ![t] =
                    Append(@, Outcome("cancelled", "None"))]
  /\ UNCHANGED <<lone_vars, repo_vars, hs_vars, stop_returns, llm, events,
                 call, stopper, rec, id_pool, calls>>

\* ------------------------------------------------ HeartbeatService._loop
\* asyncio.sleep(interval) is over: the interval has passed since the last
\* look at the clock, so the task has been idle that much longer; the loop
\* suspends in repo.get
hb_tick(t) ==
  /\ hb_loop[t] = "sleep"
  /\ hb_loop' = [hb_loop EXCEPT ![t] = "get"]
  /\ records' = IF records[t].status = "none" THEN records
                ELSE [records EXCEPT ![t] =
                        [@ EXCEPT !.idle = @ + hb_interval]]
  /\ UNCHANGED <<lone_vars, repo_vars, hs_vars, stop_returns, llm,
                 running_tasks, hb_tasks, unit, events, call, stopper, rec,
                 id_pool, calls, outcomes>>

\* a loop that goes back to sleep where it should leave
hb_exit_bug_stay(t) ==
  /\ hb_loop' = [hb_loop EXCEPT ![t] = "sleep"]
  /\ UNCHANGED hb_tasks

\* the loop leaves: finally pops the id from HeartbeatService._tasks
hb_exit(t) ==
  /\ hb_loop' = [hb_loop EXCEPT ![t] = "done"]
  /\ hb_tasks' = hb_tasks \ {t}

\* the hung-task check with >= in place of >
hung_bug_inclusive(task) == task.idle >= hb_timeout

\* the hung-task check of a tick
hung(task) == task.idle > hb_timeout

\* a supervisor that fails the hung task itself and drops its handle
hb_check_bug_kills(t) ==
  /\ hb_loop[t] = "get"
  /\ IF records[t].status # "running"
     THEN /\ hb_exit(t)
          /\ UNCHANGED <<events, records, running_tasks>>
     ELSE IF hung(records[t])
     THEN /\ hb_exit(t)
          /\ events' = [events EXCEPT ![t] =
               Append(@, Event("Timeout", records[t].total_cost, "None",
                               "None"))]
          /\ records' = update_status(records, t, "failed", "keep")
          /\ running_tasks' = running_tasks \ {t}
     ELSE /\ hb_loop' = [hb_loop EXCEPT ![t] = "sleep"]
          /\ events' = [events EXCEPT ![t] =
               Append(@, Event("Progress", records[t].total_cost, "None",
                               records[t].last_output))]
          /\ UNCHANGED <<hb_tasks, records, running_tasks>>
  /\ UNCHANGED <<lone_vars, repo_vars, hs_vars, stop_returns, llm, unit,
                 call, stopper, rec, id_pool, calls, outcomes>>

\* repo.get is back: a missing or finished task ends the loop silently, a
\* hung one gets Timeout and ends the loop, any other gets Progress and
\* the loop sleeps again
hb_check(t) ==
  /\ hb_loop[t] = "get"
  /\ IF records[t].status # "running"
     THEN /\ hb_exit(t)
          /\ UNCHANGED events
     ELSE IF hung(records[t])
     THEN /\ hb_exit(t)
          /\ events' = [events EXCEPT ![t] =
               Append(@, Event("Timeout", records[t].total_cost, "None",
                               "None"))]
     ELSE /\ hb_loop' = [hb_loop EXCEPT ![t] = "sleep"]
          /\ events' = [events EXCEPT ![t] =
               Append(@, Event("Progress", records[t].total_cost, "None",
                               records[t].last_output))]
          /\ UNCHANGED hb_tasks
  /\ UNCHANGED <<lone_vars, repo_vars, hs_vars, stop_returns, llm, records,
                 running_tasks, unit, call, stopper, rec, id_pool, calls,
                 outcomes>>

\* ------------------------- taskstop_command and TaskManager.stop_task
\* stop_task going on to update_status without stopping the heartbeat
StopHeartbeat_bug_keep(s, t) ==
  /\ UNCHANGED <<lone_vars, repo_vars, hs_vars, hb_tasks, hb_loop>>
  /\ stopper' = [stopper EXCEPT ![s] =
                   [pc |-> "update_status", task_id |-> t]]

\* await self._heartbeat.stop(id), then suspend in update_status("stopped")
StopHeartbeat(s, t) ==
  IF t \in hb_tasks
  THEN /\ hb_tasks' = hb_tasks \ {t}
       /\ hb_loop' = [hb_loop EXCEPT ![t] = "done"]
       /\ stopper' = [stopper EXCEPT ![s] =
                        [pc |-> "heartbeat_stop", task_id |-> t]]
  ELSE /\ UNCHANGED <<hb_tasks, hb_loop>>
       /\ stopper' = [stopper EXCEPT ![s] =
                        [pc |-> "update_status", task_id |-> t]]

\* a stop that clears the whole handle map instead of popping one id
taskstop_command_bug_clears_map(s, t) ==
  /\ stopper[s].pc = "idle"
  /\ records[t].status = "running"
  /\ running_tasks' = {}
  /\ IF t \in running_tasks /\ unit[t].pc # "done"
     THEN /\ unit' = [unit EXCEPT ![t] = [@ EXCEPT !.cancel = TRUE]]
          /\ stopper' = [stopper EXCEPT ![s] =
                           [pc |-> "await_task", task_id |-> t]]
          /\ UNCHANGED <<hb_tasks, hb_loop>>
     ELSE /\ StopHeartbeat(s, t)
          /\ UNCHANGED unit
  /\ UNCHANGED <<lone_vars, repo_vars, hs_vars, stop_returns, llm, records,
                 events, call, rec, id_pool, calls, outcomes>>

\* /taskstop <id>: get_task shows the task running, so stop_task is called:
\* the handle is popped and, if the unit is not done, cancelled and awaited
taskstop_command(s, t) ==
  /\ stopper[s].pc = "idle"
  /\ records[t].status = "running"
  /\ running_tasks' = running_tasks \ {t}
  /\ IF t \in running_tasks /\ unit[t].pc # "done"
     THEN /\ unit' = [unit EXCEPT ![t] = [@ EXCEPT !.cancel = TRUE]]
          /\ stopper' = [stopper EXCEPT ![s] =
                           [pc |-> "await_task", task_id |-> t]]
          /\ UNCHANGED <<hb_tasks, hb_loop>>
     ELSE /\ StopHeartbeat(s, t)
          /\ UNCHANGED unit
  /\ UNCHANGED <<lone_vars, repo_vars, hs_vars, stop_returns, llm, records,
                 events, call, rec, id_pool, calls, outcomes>>

\* TaskManager.stop_task called directly, whatever the state of the task:
\* running, finished or never created
stop_task(s, t) ==
  /\ stopper[s].pc = "idle"
  /\ stop_returns[t] < MaxStops
  /\ running_tasks' = running_tasks \ {t}
  /\ IF t \in running_tasks /\ unit[t].pc # "done"
     THEN /\ unit' = [unit EXCEPT ![t] = [@ EXCEPT !.cancel = TRUE]]
          /\ stopper' = [stopper EXCEPT ![s] =
                           [pc |-> "await_task", task_id |-> t]]
          /\ UNCHANGED <<hb_tasks, hb_loop>>
     ELSE /\ StopHeartbeat(s, t)
          /\ UNCHANGED unit
  /\ UNCHANGED <<lone_vars, repo_vars, hs_vars, stop_returns, llm, records,
                 events, call, rec, id_pool, calls, outcomes>>

\* the cancelled unit has finished
stop_task_awaited(s) ==
  /\ stopper[s].pc = "await_task"
  /\ unit[stopper[s].task_id].pc = "done"
  /\ StopHeartbeat(s, stopper[s].task_id)
  /\ UNCHANGED <<lone_vars, repo_vars, hs_vars, stop_returns, llm, records,
                 running_tasks, unit, events, call, rec, id_pool, calls,
                 outcomes>>

\* the cancelled supervisor has finished
stop_task_heartbeat(s) ==
  /\ stopper[s].pc = "heartbeat_stop"
  /\ stopper' = [stopper EXCEPT ![s] = [@ EXCEPT !.pc = "update_status"]]
  /\ UNCHANGED <<lone_vars, repo_vars, hs_vars, hb_loop, stop_returns, llm,
                 records, running_tasks, hb_tasks, unit, events, call, rec,
                 id_pool, calls, outcomes>>

\* update_status(id, "stopped") is written; stop_task returns
stop_task_update(s) ==
  /\ stopper[s].pc = "update_status"
  /\ records' = update_status(records, stopper[s].task_id, "stopped", "keep")
  /\ stopper' = [stopper EXCEPT ![s] = [pc |-> "idle", task_id |-> 0]]
  /\ stop_returns' = [stop_returns EXCEPT ![stopper[s].task_id] = @ + 1]
  /\ UNCHANGED <<lone_vars, repo_vars, hs_vars, hb_loop, llm, running_tasks,
                 hb_tasks, unit, events, call, rec, id_pool, calls,
                 outcomes>>

\* --------------------------------------------------- TaskManager.recover
\* get_all_running is read; the loop suspends in its first update_status.
\* began (ghost) keeps the ids that were running when recover began.
recover ==
  /\ rec.pc = "idle"
  /\ LET orphaned == get_all_running(records) IN
       rec' = [pc |-> IF orphaned = {} THEN "done" ELSE "update_status",
               orphaned |-> orphaned,
               began |-> {t \in Ids : records[t].status = "running"}]
  /\ UNCHANGED <<lone_vars, repo_vars, hs_vars, hb_loop, stop_returns, llm,
                 records, running_tasks, hb_tasks, unit, events, call,
                 stopper, id_pool, calls, outcomes>>

\* recover publishing Failed for the orphan it marks
recover_update_bug_publish ==
  /\ rec.pc = "update_status"
  /\ LET t == MinOf(rec.orphaned) IN
       /\ records' = update_status(records, t, "failed", RESTART_MESSAGE)
       /\ events' = [events EXCEPT ![t] =
            Append(@, Event("Failed", records[t].total_cost, RESTART_MESSAGE,
                            "None"))]
       /\ rec' = [rec EXCEPT !.pc = IF rec.orphaned = {t} THEN "done"
                                    ELSE "update_status",
                             !.orphaned = rec.orphaned \ {t}]
  /\ UNCHANGED <<lone_vars, repo_vars, hs_vars, hb_loop, stop_returns, llm,
                 running_tasks, hb_tasks, unit, call, stopper, id_pool,
                 calls, outcomes>>

\* one orphan is marked failed; the loop goes on to the next
recover_update ==
  /\ rec.pc = "update_status"
  /\ LET t == MinOf(rec.orphaned) IN
       /\ records' = update_status(records, t, "failed", RESTART_MESSAGE)
       /\ rec' = [rec EXCEPT !.pc = IF rec.orphaned = {t} THEN "done"
                                    ELSE "update_status",
                             !.orphaned = rec.orphaned \ {t}]
  /\ UNCHANGED <<lone_vars, repo_vars, hs_vars, hb_loop, stop_returns, llm,
                 running_tasks, hb_tasks, unit, events, call, stopper,
                 id_pool, calls, outcomes>>

\* ----------------------------------- TaskRepository.update_progress alone
\* update_progress called from two coroutines at once, for any record.  The
\* call suspends in conn.execute and in conn.commit; the UPDATE statement
\* is what reads and writes the row.

\* the UPDATE statements run so far for the ids of S
RECURSIVE Statements(_)
Statements(S) ==
  IF S = {} THEN 0
  ELSE LET t == MinOf(S) IN written[t].turns + Statements(S \ {t})

\* the call is made; it suspends in conn.execute
repo_update_progress(w, t, cost, last_output) ==
  /\ repo_calls[w].pc = "idle"
  /\ Statements(Ids) < MaxTurns
  /\ repo_calls' = [repo_calls EXCEPT ![w] =
                      [pc |-> "execute", task_id |-> t, cost |-> cost,
                       last_output |-> last_output]]
  /\ UNCHANGED <<lone_vars, written, hs_vars, hb_loop, stop_returns, llm,
                 records, running_tasks, hb_tasks, unit, events, call,
                 stopper, rec, id_pool, calls, outcomes>>

\* the UPDATE statement has run; the call suspends in conn.commit
repo_update_progress_execute(w) ==
  /\ repo_calls[w].pc = "execute"
  /\ LET t == repo_calls[w].task_id IN
       /\ records' = update_progress(records, t, repo_calls[w].cost,
                                     repo_calls[w].last_output)
       /\ written' = [written EXCEPT ![t] =
                        [cost |-> @.cost + repo_calls[w].cost,
                         turns |-> @.turns + 1]]
  /\ repo_calls' = [repo_calls EXCEPT ![w] = [@ EXCEPT !.pc = "commit"]]
  /\ UNCHANGED <<lone_vars, hs_vars, hb_loop, stop_returns, llm,
                 running_tasks, hb_tasks, unit, events, call, stopper, rec,
                 id_pool, calls, outcomes>>

\* the commit is done; update_progress returns
repo_update_progress_commit(w) ==
  /\ repo_calls[w].pc = "commit"
  /\ repo_calls' = [repo_calls EXCEPT ![w] = IdleWrite]
  /\ UNCHANGED <<lone_vars, written, hs_vars, hb_loop, stop_returns, llm,
                 records, running_tasks, hb_tasks, unit, events, call,
                 stopper, rec, id_pool, calls, outcomes>>

\* a table in which each id has no row or a freshly created running one
InitRepository ==
  /\ records \in [Ids -> {NoRecord} \cup {BackgroundTask(p) : p \in {"p1"}}]
  /\ running_tasks = {}
  /\ hb_tasks = {}
  /\ hb_loop = [t \in Ids |-> "none"]
  /\ unit = [t \in Ids |-> NoUnit]
  /\ events = [t \in Ids |-> <<>>]
  /\ call = [c \in Callers |-> IdleCall("none")]
  /\ stopper = [s \in Stoppers |-> [pc |-> "idle", task_id |-> 0]]
  /\ rec = [pc |-> "idle", orphaned |-> {}, began |-> {}]
  /\ id_pool = {}
  /\ llm = IdleProvider
  /\ stop_returns = [t \in Ids |-> 0]
  /\ calls = [t \in Ids |-> 0]
  /\ outcomes = [t \in Ids |-> <<>>]
  /\ hs_tasks = [t \in Ids |-> 0]
  /\ hs_loops = [l \in Loops |-> NoLoop]
  /\ hs_calls = [c \in Stoppers |-> IdleStop]
  /\ repo_calls = [w \in Writers |-> IdleWrite]
  /\ written = [t \in Ids |-> [cost |-> 0, turns |-> 0]]
  /\ fin = IdleRun
  /\ query = NoQuery

NextRepository ==
  \/ \E w \in Writers, t \in Ids, d \in {0, MaxDelta}, o \in {"None", "out"} :
        repo_update_progress(w, t, d, o)
  \/ \E w \in Writers : repo_update_progress_execute(w)
  \/ \E w \in Writers : repo_update_progress_commit(w)

SpecRepository == InitRepository /\ [][NextRepository]_vars

\* ------------------------------------------- HeartbeatService on its own
\* start, stop and stop_all called by any coroutine in any order, for ids
\* that may be started again after a stop.  The repository and the bus are
\* the service's collaborators: what repo.get finds is an input.

\* start(task_id): nothing for a tracked id, else create_task(_loop(id))
hs_start(t) ==
  /\ IF hs_tasks[t] # 0
     THEN UNCHANGED hs_vars
     ELSE /\ \E k \in Loops : hs_loops[k].pc = "none"
          /\ LET l == MinOf({k \in Loops : hs_loops[k].pc = "none"}) IN
               /\ hs_tasks' = [hs_tasks EXCEPT ![t] = l]
               /\ hs_loops' = [hs_loops EXCEPT ![l] =
                                 [NoLoop EXCEPT !.task_id = t,
                                                !.pc = "created"]]
          /\ hs_calls' = [c \in Stoppers |->
                            IF hs_calls[c].op = "stop_all"
                            THEN [hs_calls[c] EXCEPT !.clean = FALSE]
                            ELSE hs_calls[c]]
  /\ UNCHANGED <<lone_vars, events, mgr_vars>>

\* a loop that leaves without its finally
hs_finally_bug_skip(tasks, t) == tasks

\* finally: self._tasks.pop(task_id, None)
hs_finally(tasks, t) == [tasks EXCEPT ![t] = 0]

\* the loop is over: finally runs and the coroutine returns, so the asyncio
\* task finishes with a result and not with an exception
hs_loop_ends(l) ==
  /\ hs_tasks' = hs_finally(hs_tasks, hs_loops[l].task_id)
  /\ hs_loops' = [hs_loops EXCEPT ![l] =
                    [NoLoop EXCEPT !.pc = "done", !.result = "returned"]]

\* first step of the loop: it suspends in asyncio.sleep(interval)
hs_loop_start(l) ==
  /\ hs_loops[l].pc = "created"
  /\ ~hs_loops[l].cancel
  /\ hs_loops' = [hs_loops EXCEPT ![l] = [@ EXCEPT !.pc = "sleep"]]
  /\ UNCHANGED <<lone_vars, hs_tasks, hs_calls, events, mgr_vars>>

\* cancelled before its first step: the coroutine body, and with it the
\* finally, never runs
hs_loop_never_ran(l) ==
  /\ hs_loops[l].pc = "created"
  /\ hs_loops[l].cancel
  /\ hs_loops' = [hs_loops EXCEPT ![l] =
                    [NoLoop EXCEPT !.pc = "done", !.result = "cancelled"]]
  /\ UNCHANGED <<lone_vars, hs_tasks, hs_calls, events, mgr_vars>>

\* the sleep is over; the loop suspends in repo.get
hs_loop_tick(l) ==
  /\ hs_loops[l].pc = "sleep"
  /\ ~hs_loops[l].cancel
  /\ hs_loops' = [hs_loops EXCEPT ![l] = [@ EXCEPT !.pc = "get"]]
  /\ UNCHANGED <<lone_vars, hs_tasks, hs_calls, events, mgr_vars>>

\* what repo.get can find
Found == {"gone", "hung", "alive"}

\* repo.get is back: break, or Timeout and break, or Progress and sleep
hs_loop_check(l, found) ==
  /\ hs_loops[l].pc = "get"
  /\ ~hs_loops[l].cancel
  /\ LET t == hs_loops[l].task_id IN
       IF found = "gone"
       THEN /\ hs_loop_ends(l)
            /\ UNCHANGED events
       ELSE /\ Len(events[t]) < MaxBeats
            /\ IF found = "hung"
               THEN /\ hs_loop_ends(l)
                    /\ events' = [events EXCEPT ![t] =
                         Append(@, Event("Timeout", 0, "None", "None"))]
               ELSE /\ hs_loops' = [hs_loops EXCEPT ![l] =
                                      [@ EXCEPT !.pc = "sleep"]]
                    /\ events' = [events EXCEPT ![t] =
                         Append(@, Event("Progress", 0, "None", "None"))]
                    /\ UNCHANGED hs_tasks
  /\ UNCHANGED <<lone_vars, hs_calls, mgr_vars>>

\* repo.get or publish raises an ordinary exception: except Exception logs
\* it, finally pops, the coroutine returns.  The event of a publish that
\* raised is not delivered.
hs_loop_raises(l) ==
  /\ hs_loops[l].pc = "get"
  /\ ~hs_loops[l].cancel
  /\ hs_loop_ends(l)
  /\ UNCHANGED <<lone_vars, hs_calls, events, mgr_vars>>

\* CancelledError is thrown into the suspended loop: except CancelledError
\* passes, finally pops, the coroutine returns
hs_loop_cancelled(l) ==
  /\ hs_loops[l].pc \in {"sleep", "get"}
  /\ hs_loops[l].cancel
  /\ hs_loop_ends(l)
  /\ UNCHANGED <<lone_vars, hs_calls, events, mgr_vars>>

\* stop(id) for the ids of keys, in ascending order, up to the first await:
\* pop the entry; a loop that is not done is cancelled and awaited
RECURSIVE StopKeys(_, _, _)
StopKeys(keys, tasks, loops) ==
  IF keys = {}
  THEN [tasks |-> tasks, loops |-> loops, keys |-> {}, awaiting |-> 0]
  ELSE LET t == MinOf(keys)
           l == tasks[t]
           popped == [tasks EXCEPT ![t] = 0]
       IN  IF l # 0 /\ loops[l].pc # "done"
           THEN [tasks |-> popped,
                 loops |-> [loops EXCEPT ![l] = [@ EXCEPT !.cancel = TRUE]],
                 keys |-> keys \ {t}, awaiting |-> l]
           ELSE StopKeys(keys \ {t}, popped, loops)

\* the caller runs up to its next await, or returns
hs_stops(c, op, keys, clean, attached) ==
  LET r == StopKeys(keys, hs_tasks, hs_loops) IN
    /\ hs_tasks' = r.tasks
    /\ hs_loops' =
         IF r.awaiting # 0 THEN r.loops
         ELSE [l \in Loops |->
                 IF l \in attached /\ r.loops[l].pc \notin {"none", "done"}
                 THEN [r.loops[l] EXCEPT !.stopped = TRUE]
                 ELSE r.loops[l]]
    /\ hs_calls' = [hs_calls EXCEPT ![c] =
         IF r.awaiting # 0
         THEN [@ EXCEPT !.op = op, !.keys = r.keys,
                        !.awaiting = r.awaiting, !.clean = clean,
                        !.attached = attached]
         ELSE [IdleStop EXCEPT !.clean = clean,
                               !.returns = IF op = "stop_all"
                                           THEN ~hs_calls[c].returns
                                           ELSE hs_calls[c].returns]]

\* stop(task_id)
hs_stop(c, t) ==
  /\ hs_calls[c].op = "idle"
  /\ hs_stops(c, "stop", {t}, TRUE,
              {l \in Loops : /\ hs_loops[l].task_id = t
                             /\ hs_loops[l].pc \notin {"none", "done"}})
  /\ UNCHANGED <<lone_vars, events, mgr_vars>>

\* stop_all(): for task_id in list(self._tasks.keys()): await stop(task_id)
hs_stop_all(c) ==
  /\ hs_calls[c].op = "idle"
  /\ hs_stops(c, "stop_all", {t \in Ids : hs_tasks[t] # 0}, TRUE, {})
  /\ UNCHANGED <<lone_vars, events, mgr_vars>>

\* the awaited loop is done: stop returns; stop_all goes on with its list
hs_stop_awaited(c) ==
  /\ hs_calls[c].op # "idle"
  /\ hs_loops[hs_calls[c].awaiting].pc = "done"
  /\ hs_stops(c, hs_calls[c].op, hs_calls[c].keys, hs_calls[c].clean,
              hs_calls[c].attached)
  /\ UNCHANGED <<lone_vars, events, mgr_vars>>

InitService == InitWith({})

NextService ==
  \/ \E t \in Ids : hs_start(t)
  \/ \E l \in Loops : hs_loop_start(l)
  \/ \E l \in Loops : hs_loop_never_ran(l)
  \/ \E l \in Loops : hs_loop_tick(l)
  \/ \E l \in Loops, found \in Found : hs_loop_check(l, found)
  \/ \E l \in Loops : hs_loop_raises(l)
  \/ \E l \in Loops : hs_loop_cancelled(l)
  \/ \E t \in Ids : hs_stop(1, t)
  \/ hs_stop_all(1)
  \/ hs_stop_awaited(1)

SpecService == InitService /\ [][NextService]_vars

\* ------------------------------------------------------------------ Next
\* One task, one start_task caller, the provider free to stream, fail and
\* succeed: the life of an execution unit against /taskstop and recover.
Init == InitWith({1})

Next ==
  \/ \E p \in Projects : start_task(1, p)
  \/ start_task_check_project(1)
  \/ start_task_check_count(1)
  \/ start_task_launch(1)
  \/ \E t \in Ids : unit_start(t)
  \/ \E t \in Ids, d \in Deltas, o \in {"None", "out"} :
        stream_callback(t, d, o)
  \/ \E t \in Ids : stream_callback_check(t)
  \/ \E t \in Ids, e \in BOOLEAN, m \in {"None", "overload"}, k \in RespCosts :
        provider_return(t, e, m, k)
  \/ \E t \in Ids : provider_raise(t, "glitch")
  \/ \E t \in Ids : unit_retry(t)
  \/ \E t \in Ids : unit_commits(t)
  \/ \E t \in Ids : unit_completed(t)
  \/ \E t \in Ids : unit_failed_cost(t)
  \/ \E t \in Ids : unit_failed(t)
  \/ \E t \in Ids : unit_cleanup(t)
  \/ \E t \in Ids, w \in BOOLEAN : unit_cancelled(t, w)
  \/ \E s \in Stoppers, t \in Ids : taskstop_command(s, t)
  \/ \E s \in Stoppers : stop_task_awaited(s)
  \/ \E s \in Stoppers : stop_task_heartbeat(s)
  \/ \E s \in Stoppers : stop_task_update(s)
  \/ recover
  \/ recover_update

Spec == Init /\ [][Next]_vars

\* Concurrent start_task callers and as many tasks as there are ids, each
\* task blocked in its provider call until one /taskstop handler stops it.
InitAdmission == InitWith(Ids)

NextAdmission ==
  \/ \E c \in Callers, p \in Projects : start_task(c, p)
  \/ \E c \in Callers : start_task_check_project(c)
  \/ \E c \in Callers : start_task_check_count(c)
  \/ \E c \in Callers : start_task_launch(c)
  \/ \E t \in Ids : unit_start(t)
  \/ \E t \in Ids : unit_cleanup(t)
  \/ \E t \in Ids, w \in BOOLEAN : unit_cancelled(t, w)
  \/ \E t \in Ids : taskstop_command(1, t)
  \/ stop_task_awaited(1)
  \/ stop_task_heartbeat(1)
  \/ stop_task_update(1)

SpecAdmission == InitAdmission /\ [][NextAdmission]_vars

\* recover at startup: a fresh manager over the table the previous process
\* left behind.  The rows are the ones create and update_status write: a
\* running row has no finish timestamp, a completed or failed one has it, a
\* stopped one has it when stopped was written over completed or failed.
StoredRecords ==
  {NoRecord}
    \cup {BackgroundTask(p) : p \in Projects}
    \cup {[BackgroundTask(p) EXCEPT !.status = "completed",
                                    !.finished_at = TRUE] : p \in Projects}
    \cup {[BackgroundTask(p) EXCEPT !.status = "failed",
                                    !.finished_at = TRUE,
                                    !.error_message = m] :
            p \in Projects, m \in {COST_MESSAGE, RESTART_MESSAGE}}
    \cup {[BackgroundTask(p) EXCEPT !.status = "stopped",
                                    !.finished_at = f] :
            p \in Projects, f \in BOOLEAN}

InitRecover ==
  /\ records \in [Ids -> StoredRecords]
  /\ running_tasks = {}
  /\ hb_tasks = {}
  /\ hb_loop = [t \in Ids |-> "none"]
  /\ unit = [t \in Ids |-> NoUnit]
  /\ events = [t \in Ids |-> <<>>]
  /\ call = [c \in Callers |-> IdleCall("none")]
  /\ stopper = [s \in Stoppers |-> [pc |-> "idle", task_id |-> 0]]
  /\ rec = [pc |-> "idle", orphaned |-> {}, began |-> {}]
  /\ id_pool = {}
  /\ llm = IdleProvider
  /\ stop_returns = [t \in Ids |-> 0]
  /\ calls = [t \in Ids |-> 0]
  /\ outcomes = [t \in Ids |-> <<>>]
  /\ hs_tasks = [t \in Ids |-> 0]
  /\ hs_loops = [l \in Loops |-> NoLoop]
  /\ hs_calls = [c \in Stoppers |-> IdleStop]
  /\ repo_calls = [w \in Writers |-> IdleWrite]
  /\ written = [t \in Ids |-> [cost |-> 0, turns |-> 0]]
  /\ fin = IdleRun
  /\ query = NoQuery

NextRecover ==
  \/ recover
  \/ recover_update

SpecRecover == InitRecover /\ [][NextRecover]_vars

\* One task with its heartbeat supervisor ticking, the provider streaming
\* and succeeding, against one /taskstop caller and recover.
InitHeartbeat == InitWith({1})

NextHeartbeat ==
  \/ \E p \in Projects : start_task(1, p)
  \/ start_task_check_project(1)
  \/ start_task_check_count(1)
  \/ start_task_launch(1)
  \/ \E t \in Ids : unit_start(t)
  \/ \E t \in Ids, d \in Deltas : stream_callback(t, d, "out")
  \/ \E t \in Ids : stream_callback_check(t)
  \/ \E t \in Ids : provider_return(t, FALSE, "None", 1)
  \/ \E t \in Ids : unit_commits(t)
  \/ \E t \in Ids : unit_completed(t)
  \/ \E t \in Ids : unit_failed_cost(t)
  \/ \E t \in Ids : unit_cleanup(t)
  \/ \E t \in Ids, w \in BOOLEAN : unit_cancelled(t, w)
  \/ \E t \in Ids : hb_tick(t)
  \/ \E t \in Ids : hb_check(t)
  \/ \E t \in Ids : taskstop_command(1, t)
  \/ stop_task_awaited(1)
  \/ stop_task_heartbeat(1)
  \/ stop_task_update(1)
  \/ recover
  \/ recover_update

SpecHeartbeat == InitHeartbeat /\ [][NextHeartbeat]_vars

\* Launches in which a step may raise: every caller, units that start and
\* then stay in the provider call.
InitLaunch == InitWith(Ids)

NextLaunch ==
  \/ \E c \in Callers, p \in Projects : start_task(c, p)
  \/ \E c \in Callers : start_task_check_project(c)
  \/ \E c \in Callers : start_task_check_count(c)
  \/ \E c \in Callers : start_task_launch(c)
  \/ \E c \in Callers, at \in LaunchSteps : start_task_launch_raises(c, at)
  \/ \E t \in Ids : unit_start(t)

SpecLaunch == InitLaunch /\ [][NextLaunch]_vars

\* One task, and an id that was never handed out, against stop_task called
\* directly and repeatedly; the provider call succeeds without streaming.
InitStop == InitWith({1})

NextStop ==
  \/ \E p \in Projects : start_task(1, p)
  \/ start_task_check_project(1)
  \/ start_task_check_count(1)
  \/ start_task_launch(1)
  \/ \E t \in Ids : unit_start(t)
  \/ \E t \in Ids : provider_return(t, FALSE, "None", 1)
  \/ \E t \in Ids : unit_commits(t)
  \/ \E t \in Ids : unit_completed(t)
  \/ \E t \in Ids : unit_cleanup(t)
  \/ \E t \in Ids, w \in BOOLEAN : unit_cancelled(t, w)
  \/ \E s \in Stoppers, t \in Ids : stop_task(s, t)
  \/ \E s \in Stoppers : stop_task_awaited(s)
  \/ \E s \in Stoppers : stop_task_heartbeat(s)
  \/ \E s \in Stoppers : stop_task_update(s)

SpecStop == InitStop /\ [][NextStop]_vars

\* Two start_task callers whose admissions overlap, so that two tasks run
\* side by side; the provider call of each succeeds without streaming, and
\* one /taskstop handler stops whichever task it is given.
InitIsolation == InitWith({1, 2})

NextIsolation ==
  \/ \E c \in {1, 2}, p \in Projects : start_task(c, p)
  \/ \E c \in {1, 2} : start_task_check_project(c)
  \/ \E c \in {1, 2} : start_task_check_count(c)
  \/ \E c \in {1, 2} : start_task_launch(c)
  \/ \E t \in Ids : unit_start(t)
  \/ \E t \in Ids : provider_return(t, FALSE, "None", 1)
  \/ \E t \in Ids : unit_commits(t)
  \/ \E t \in Ids : unit_completed(t)
  \/ \E t \in Ids : unit_cleanup(t)
  \/ \E t \in Ids, w \in BOOLEAN : unit_cancelled(t, w)
  \/ \E t \in Ids : taskstop_command(1, t)
  \/ stop_task_awaited(1)
  \/ stop_task_heartbeat(1)
  \/ stop_task_update(1)

SpecIsolation == InitIsolation /\ [][NextIsolation]_vars

\* One task whose provider call succeeds or fails and whose later steps
\* (commit collection, the completed write, the Completed publish) may
\* raise; nobody stops the task.
InitAttempt == InitWith({1})

NextAttempt ==
  \/ \E p \in Projects : start_task(1, p)
  \/ start_task_check_project(1)
  \/ start_task_check_count(1)
  \/ start_task_launch(1)
  \/ \E t \in Ids : unit_start(t)
  \/ \E t \in Ids, e \in BOOLEAN : provider_return(t, e, "None", 1)
  \/ \E t \in Ids : unit_retry(t)
  \/ \E t \in Ids : unit_commits(t)
  \/ \E t \in Ids : unit_completed(t)
  \/ \E t \in Ids, at \in PostSteps : unit_step_raises(t, at)
  \/ \E t \in Ids : unit_failed(t)
  \/ \E t \in Ids : unit_cleanup(t)

SpecAttempt == InitAttempt /\ [][NextAttempt]_vars

\* Tasks that run to completion, and later start_task calls whose fresh id
\* may be one that a record already has.
InitCollision == InitWith({1, 2})

NextCollision ==
  \/ \E c \in {1, 2}, p \in Projects : start_task(c, p)
  \/ \E c \in {1, 2} : start_task_check_project(c)
  \/ \E c \in {1, 2} : start_task_check_count(c)
  \/ \E c \in {1, 2}, t \in Ids : start_task_check_count_collides(c, t)
  \/ \E c \in {1, 2} : start_task_launch(c)
  \/ \E c \in {1, 2} : start_task_create_duplicate(c)
  \/ \E t \in Ids : unit_start(t)
  \/ \E t \in Ids : provider_return(t, FALSE, "None", 1)
  \/ \E t \in Ids : unit_commits(t)
  \/ \E t \in Ids : unit_completed(t)
  \/ \E t \in Ids : unit_cleanup(t)

SpecCollision == InitCollision /\ [][NextCollision]_vars

\* One task through its whole life against one /taskstop handler, with the
\* event loop running every coroutine that is ready and the provider
\* ending every call: a suspended unit or stop_task is resumed, a provider
\* call returns or raises.  Callers and /taskstop requests come when they
\* come.
InitLive == InitWith({1})

NextLive ==
  \/ \E p \in Projects : start_task(1, p)
  \/ start_task_check_project(1)
  \/ start_task_check_count(1)
  \/ start_task_launch(1)
  \/ \E t \in Ids : unit_start(t)
  \/ \E t \in Ids, d \in Deltas, o \in {"None", "out"} :
        stream_callback(t, d, o)
  \/ \E t \in Ids : stream_callback_check(t)
  \/ \E t \in Ids, e \in BOOLEAN : provider_return(t, e, "None", 1)
  \/ \E t \in Ids : provider_raise(t, "glitch")
  \/ \E t \in Ids : unit_retry(t)
  \/ \E t \in Ids : unit_commits(t)
  \/ \E t \in Ids : unit_completed(t)
  \/ \E t \in Ids : unit_failed_cost(t)
  \/ \E t \in Ids : unit_failed(t)
  \/ \E t \in Ids : unit_cleanup(t)
  \/ \E t \in Ids, w \in BOOLEAN : unit_cancelled(t, w)
  \/ \E t \in Ids : taskstop_command(1, t)
  \/ stop_task_awaited(1)
  \/ stop_task_heartbeat(1)
  \/ stop_task_update(1)

FairLive ==
  /\ \A t \in Ids :
       /\ WF_vars(unit_start(t))
       /\ WF_vars(stream_callback_check(t))
       /\ WF_vars(\/ \E e \in BOOLEAN : provider_return(t, e, "None", 1)
                  \/ provider_raise(t, "glitch"))
       /\ WF_vars(unit_retry(t))
       /\ WF_vars(unit_commits(t))
       /\ WF_vars(unit_completed(t))
       /\ WF_vars(unit_failed_cost(t))
       /\ WF_vars(unit_failed(t))
       /\ WF_vars(unit_cleanup(t))
       /\ WF_vars(\E w \in BOOLEAN : unit_cancelled(t, w))
  /\ WF_vars(stop_task_awaited(1))
  /\ WF_vars(stop_task_heartbeat(1))
  /\ WF_vars(stop_task_update(1))

SpecLive == InitLive /\ [][NextLive]_vars /\ FairLive

\* --------------------------------------- _run_task, the successful attempt
\* One attempt of _run_task from the moment provider.execute has returned a
\* response that is not an error: _collect_commits, update_status and the
\* publish of TaskCompletedEvent, with the row the task was created with.
Chars == {"a", "b"}
ResponseContents == UNION {[1..n -> Chars] : n \in 0..MaxContent}
CommitLists ==
  {<<>>,
   <<[sha |-> "abc1234", message |-> "[claude] Fix bug"]>>,
   <<[sha |-> "abc1234", message |-> "[claude] Fix bug"],
     [sha |-> "def5678", message |-> "[claude] Add tests"]>>}

\* commits_json: the list of dicts written out as one flat text, sha and
\* message of each commit in turn
json_dumps(commits) ==
  [i \in 1..(2 * Len(commits)) |->
     IF i % 2 = 1 THEN commits[(i + 1) \div 2].sha
     ELSE commits[i \div 2].message]

\* BackgroundTask.from_row: the text read back into the list of dicts
json_loads(text) ==
  [i \in 1..(Len(text) \div 2) |->
     [sha |-> text[2 * i - 1], message |-> text[2 * i]]]

\* the row repo.create wrote for the task
CreatedRow(session_id) ==
  [status |-> "running", finished_at |-> FALSE, result_summary |-> "None",
   session_id |-> session_id, error_message |-> "None",
   commits_json |-> json_dumps(<<>>)]

\* update_status(task_id, status, **kwargs): one UPDATE that sets the status,
\* finished_at for completed and failed, and each supported keyword that is
\* present
update_status_kwargs(row, status, kwargs) ==
  [row EXCEPT
     !.status = status,
     !.finished_at = IF status \in {"completed", "failed"} THEN TRUE ELSE @,
     !.result_summary = IF "result_summary" \in DOMAIN kwargs
                        THEN kwargs.result_summary ELSE @,
     !.error_message = IF "error_message" \in DOMAIN kwargs
                       THEN kwargs.error_message ELSE @,
     !.session_id = IF "session_id" \in DOMAIN kwargs
                    THEN kwargs.session_id ELSE @,
     !.commits_json = IF "commits" \in DOMAIN kwargs
                      THEN json_dumps(kwargs.commits) ELSE @]

\* the whole content stored as the summary
result_summary_bug_whole(content) == content

\* response.content[:500] if response.content else ""
result_summary(content) ==
  IF content = <<>> THEN <<>>
  ELSE SubSeq(content, 1,
              IF Len(content) < summary_limit THEN Len(content)
              ELSE summary_limit)

TaskCompletedEvent(cost, commits, summary) ==
  [type |-> "Completed", cost |-> cost, commits |-> commits,
   result_summary |-> summary]

\* provider.execute returns a response that is not an error, after the
\* stream callback has counted accumulated_cost without passing the limit;
\* the unit suspends in _collect_commits
run_response(session_id, accumulated_cost, response) ==
  /\ fin.pc = "idle"
  /\ ~cost_exceeded(accumulated_cost)
  /\ fin' = [pc |-> "collect_commits", row |-> CreatedRow(session_id),
             accumulated_cost |-> accumulated_cost, response |-> response,
             commits |-> <<>>, status_calls |-> 0, events |-> <<>>]
  /\ UNCHANGED <<query, events, hs_vars, mgr_vars>>

\* _collect_commits returns; the unit suspends in update_status
run_collect_commits(commits) ==
  /\ fin.pc = "collect_commits"
  /\ fin' = [fin EXCEPT !.pc = "update_status", !.commits = commits]
  /\ UNCHANGED <<query, events, hs_vars, mgr_vars>>

\* update_status is written, TaskCompletedEvent is published, return
run_completed ==
  /\ fin.pc = "update_status"
  /\ LET summary == result_summary(fin.response.content) IN
       fin' = [fin EXCEPT
                 !.pc = "done",
                 !.row = update_status_kwargs(
                           @, "completed",
                           [result_summary |-> summary,
                            session_id |-> fin.response.session_id,
                            commits |-> fin.commits]),
                 !.status_calls = @ + 1,
                 !.events = Append(@, TaskCompletedEvent(
                              fin.accumulated_cost + fin.response.cost,
                              fin.commits, summary))]
  /\ UNCHANGED <<query, events, hs_vars, mgr_vars>>

InitSuccess == InitWith({})

NextSuccess ==
  \/ \E sess \in {"None", "sess-0"}, a \in Deltas, c \in ResponseContents,
        s \in {"None", "sess-1"}, k \in {0} \cup RespCosts :
        run_response(sess, a, [content |-> c, session_id |-> s, cost |-> k])
  \/ \E commits \in CommitLists : run_collect_commits(commits)
  \/ run_completed

SpecSuccess == InitSuccess /\ [][NextSuccess]_vars

\* --------------------------------------- TaskRepository.get_last_completed
\* get_task_for_continue hands the path to get_last_completed, which runs
\* one SELECT over the table.  The tables are those create and
\* update_status leave behind: finished_at is 0 (NULL) for a running row,
\* a timestamp for a completed or failed one, either for a stopped one.
Times == 1..MaxTime

NoRow == [status |-> "none", project_path |-> "none", finished_at |-> 0]

StoredRows ==
  {NoRow}
    \cup {[status |-> "running", project_path |-> p, finished_at |-> 0] :
            p \in Projects}
    \cup {[status |-> st, project_path |-> p, finished_at |-> f] :
            st \in {"completed", "failed"}, p \in Projects, f \in Times}
    \cup {[status |-> "stopped", project_path |-> p, finished_at |-> f] :
            p \in Projects, f \in {0} \cup Times}

\* the SELECT without its status condition
get_last_completed_bug_any_status(table, path) ==
  LET found == {t \in Ids : table[t].project_path = path}
  IN IF found = {} THEN {0}
     ELSE {t \in found :
             \A u \in found : table[u].finished_at <= table[t].finished_at}

\* WHERE project_path = ? AND status IN ('completed', 'failed')
\* ORDER BY finished_at DESC LIMIT 1: the ids the SELECT may return (0 for
\* no row); rows with the same finished_at come in either order
get_last_completed(table, path) ==
  LET found == {t \in Ids : /\ table[t].project_path = path
                            /\ table[t].status \in {"completed", "failed"}}
  IN IF found = {} THEN {0}
     ELSE {t \in found :
             \A u \in found : table[u].finished_at <= table[t].finished_at}

\* get_task_for_continue(project_path)
get_task_for_continue(path) ==
  /\ query.pc = "stored"
  /\ \E r \in get_last_completed(query.table, path) :
       query' = [query EXCEPT !.pc = "returned", !.path = path,
                              !.result = r]
  /\ UNCHANGED <<fin, events, hs_vars, mgr_vars>>

\* the next request is made against the same table
get_task_for_continue_again ==
  /\ query.pc = "returned"
  /\ query' = [query EXCEPT !.pc = "stored", !.path = "none", !.result = 0]
  /\ UNCHANGED <<fin, events, hs_vars, mgr_vars>>

InitContinue ==
  /\ query \in {[pc |-> "stored", table |-> tb, path |-> "none",
                  result |-> 0] : tb \in [Ids -> StoredRows]}
  /\ fin = IdleRun
  /\ records = [t \in Ids |-> NoRecord]
  /\ running_tasks = {}
  /\ hb_tasks = {}
  /\ hb_loop = [t \in Ids |-> "none"]
  /\ unit = [t \in Ids |-> NoUnit]
  /\ events = [t \in Ids |-> <<>>]
  /\ call = [c \in Callers |-> IdleCall("none")]
  /\ stopper = [s \in Stoppers |-> [pc |-> "idle", task_id |-> 0]]
  /\ rec = [pc |-> "idle", orphaned |-> {}, began |-> {}]
  /\ id_pool = {}
  /\ llm = IdleProvider
  /\ stop_returns = [t \in Ids |-> 0]
  /\ calls = [t \in Ids |-> 0]
  /\ outcomes = [t \in Ids |-> <<>>]
  /\ hs_tasks = [t \in Ids |-> 0]
  /\ hs_loops = [l \in Loops |-> NoLoop]
  /\ hs_calls = [c \in Stoppers |-> IdleStop]
  /\ repo_calls = [w \in Writers |-> IdleWrite]
  /\ written = [t \in Ids |-> [cost |-> 0, turns |-> 0]]

NextContinue ==
  \/ \E p \in Projects : get_task_for_continue(p)
  \/ get_task_for_continue_again

SpecContinue == InitContinue /\ [][NextContinue]_vars

\* ------------------------------------------------ ClaudeProvider.execute
\* One call of ClaudeProvider.execute, on its own: run_command is the
\* ClaudeIntegration facade, which streams events into the callback and
\* then returns a ClaudeResponse or raises.  The exceptions are named by
\* their class; str(exc) is what the except branch keeps of them.
Contents == {"", "Done."}
SessionIds == {"None", "sess-1"}
TransportErrors == {"SDK connection lost"}
CallbackErrors == {"CostLimitExceeded", "ValueError"}

ClaudeResponse(content, session_id, cost, is_error) ==
  [content |-> content, session_id |-> session_id, cost |-> cost,
   is_error |-> is_error]

\* the LLMResponse built from a ClaudeResponse: error_message keeps its
\* default
LLMResponse(r) ==
  [content |-> r.content, session_id |-> r.session_id, cost |-> r.cost,
   is_error |-> r.is_error, error_message |-> "None"]

\* the LLMResponse built in the except branch
ErrorResponse(exc) ==
  [content |-> "", session_id |-> "None", cost |-> 0, is_error |-> TRUE,
   error_message |-> exc]

\* an execute without its except branch
ClaudeProvider_except_bug_reraise(exc) == [kind |-> "raise", exc |-> exc]

\* except Exception: CancelledError is a BaseException and is not caught,
\* every other exception leaving run_command becomes a returned response
ClaudeProvider_except(exc) ==
  IF exc = "CancelledError"
  THEN [kind |-> "raise", exc |-> exc]
  ELSE [kind |-> "return", response |-> ErrorResponse(exc)]

\* execute is called and suspends in run_command
ClaudeProvider_execute(with_callback) ==
  /\ llm.pc = "idle"
  /\ llm' = [llm EXCEPT !.pc = "run_command", !.has_callback = with_callback]
  /\ UNCHANGED <<lone_vars, repo_vars, hs_vars, hb_loop, stop_returns, records,
                 running_tasks, hb_tasks, unit, events, call, stopper, rec,
                 id_pool, calls, outcomes>>

\* run_command streams an event into on_stream and the callback returns
run_command_stream ==
  /\ llm.pc = "run_command" /\ llm.has_callback
  /\ llm.streamed < MaxTurns
  /\ llm' = [llm EXCEPT !.streamed = @ + 1]
  /\ UNCHANGED <<lone_vars, repo_vars, hs_vars, hb_loop, stop_returns, records,
                 running_tasks, hb_tasks, unit, events, call, stopper, rec,
                 id_pool, calls, outcomes>>

\* the callback raises on a streamed event.  What run_command does with
\* the exception is not execute's choice: it either lets it out, into the
\* except branch of execute, or swallows it and goes on
run_command_callback_raises(exc, let_out) ==
  /\ llm.pc = "run_command" /\ llm.has_callback
  /\ llm.streamed < MaxTurns
  /\ llm' = IF let_out
            THEN [llm EXCEPT !.pc = "done", !.streamed = @ + 1,
                             !.callback_exc = exc,
                             !.outcome = ClaudeProvider_except(exc)]
            ELSE [llm EXCEPT !.streamed = @ + 1, !.callback_exc = exc]
  /\ UNCHANGED <<lone_vars, repo_vars, hs_vars, hb_loop, stop_returns, records,
                 running_tasks, hb_tasks, unit, events, call, stopper, rec,
                 id_pool, calls, outcomes>>

\* run_command returns a ClaudeResponse, mapped to an LLMResponse
run_command_returns(r) ==
  /\ llm.pc = "run_command"
  /\ llm' = [llm EXCEPT !.pc = "done",
                        !.outcome = [kind |-> "return",
                                     response |-> LLMResponse(r)]]
  /\ UNCHANGED <<lone_vars, repo_vars, hs_vars, hb_loop, stop_returns, records,
                 running_tasks, hb_tasks, unit, events, call, stopper, rec,
                 id_pool, calls, outcomes>>

\* run_command raises: a transport error, or the caller's cancellation
run_command_raises(exc) ==
  /\ llm.pc = "run_command"
  /\ llm' = [llm EXCEPT !.pc = "done", !.transport_exc = exc,
                        !.outcome = ClaudeProvider_except(exc)]
  /\ UNCHANGED <<lone_vars, repo_vars, hs_vars, hb_loop, stop_returns, records,
                 running_tasks, hb_tasks, unit, events, call, stopper, rec,
                 id_pool, calls, outcomes>>

InitProvider == InitWith({})

NextProvider ==
  \/ \E cb \in BOOLEAN : ClaudeProvider_execute(cb)
  \/ run_command_stream
  \/ \E e \in CallbackErrors, b \in BOOLEAN :
        run_command_callback_raises(e, b)
  \/ \E c \in Contents, sid \in SessionIds, k \in Deltas, e \in BOOLEAN :
        run_command_returns(ClaudeResponse(c, sid, k, e))
  \/ \E e \in TransportErrors \cup {"CancelledError"} : run_command_raises(e)

SpecProvider == InitProvider /\ [][NextProvider]_vars

\* ---------------------------------------------------------------- claims
\* C1: under any interleaving of start_task calls, stop_task and running
\* units, at most one record with status running exists per working
\* directory.
C1_OneRunningPerProject ==
  \A p \in Projects :
    Cardinality({t \in Ids : /\ records[t].status = "running"
                             /\ records[t].project_path = p}) <= 1

\* C2: the number of records with status running never exceeds
\* max_concurrent_tasks.
C2_RunningWithinCapacity ==
  Cardinality({t \in Ids : records[t].status = "running"})
    <= max_concurrent_tasks

\* C3: a status changes only from running to completed, failed or stopped,
\* and a completed, failed or stopped record never changes status again.
C3_StatusMonotonic ==
  [][\A t \in Ids :
       /\ records[t].status \in Terminal =>
            records'[t].status = records[t].status
       /\ records[t].status = "running" =>
            records'[t].status \in Terminal \cup {"running"}]_vars

\* C4: a record has a finish timestamp if and only if its status is
\* completed, failed or stopped.
C4_FinishedIffTerminal ==
  \A t \in Ids :
    records[t].status # "none" =>
      (records[t].finished_at <=> records[t].status \in Terminal)

\* C5: when start_task fails admission, the error is raised to the caller
\* and nothing else changes: no record, no event, no unit, no heartbeat, and
\* the running task keeps its status and handle.  ProjectBusy is raised
\* only for a working directory that has a running task, CapacityExceeded
\* only at the limit.
C5_AdmissionFailureChangesNothing ==
  [][\A c \in Callers :
       (/\ call[c].pc # "idle"
        /\ call'[c].result \in {"ProjectBusy", "CapacityExceeded"}) =>
         /\ call'[c].pc = "idle"
         /\ UNCHANGED <<records, events, unit, running_tasks, hb_tasks>>
         /\ call'[c].result = "ProjectBusy" =>
              \E t \in Ids : /\ records[t].status = "running"
                             /\ records[t].project_path = call[c].project_path
                             /\ records'[t].status = "running"
                             /\ (t \in running_tasks <=> t \in running_tasks')
         /\ call'[c].result = "CapacityExceeded" =>
              Cardinality({t \in Ids : records[t].status = "running"})
                >= max_concurrent_tasks]_vars

\* C5 witness: one caller was refused with ProjectBusy and another with
\* CapacityExceeded while the running task still has status and handle.
C5_Witness ==
  \E c1, c2 \in Callers, t \in Ids :
    /\ call[c1].result = "ProjectBusy"
    /\ call[c2].result = "CapacityExceeded"
    /\ records[t].status = "running" /\ t \in running_tasks
    /\ Len(events[t]) = 1

\* C6: for a working directory with no running task, start_task goes on to
\* create the task when the running count is max_concurrent_tasks - 1 and
\* fails with CapacityExceeded when it is max_concurrent_tasks or more; a
\* task that is created is returned to the caller as running.
C6_CapacityBoundary ==
  [][\A c \in Callers :
       LET n == Cardinality({t \in Ids : records[t].status = "running"}) IN
         /\ (call[c].pc = "count_running" /\ call'[c] # call[c]) =>
              /\ n >= max_concurrent_tasks =>
                   /\ call'[c].pc = "idle"
                   /\ call'[c].result = "CapacityExceeded"
              /\ n = max_concurrent_tasks - 1 =>
                   /\ call'[c].pc = "create"
                   /\ call'[c].task_id \in Ids
         /\ (call[c].pc = "create" /\ call'[c] # call[c]) =>
              /\ call'[c].pc = "idle" /\ call'[c].result = "ok"
              /\ records'[call[c].task_id].status = "running"
              /\ call[c].task_id \in running_tasks']_vars

\* C6 witness: a start_task succeeded below the limit and another was
\* refused with CapacityExceeded at the limit.
C6_Witness ==
  \E c1, c2 \in Callers :
    /\ call[c1].result = "ok"
    /\ call[c2].result = "CapacityExceeded"
    /\ Cardinality({t \in Ids : records[t].status = "running"})
         = max_concurrent_tasks

\* C7: provider.execute is invoked at most twice per task; the second
\* invocation is made from the retry delay, after a first attempt that
\* failed with an exception or an is_error response, by a unit that was not
\* cancelled, and a unit that leaves such a first failure without a second
\* invocation was cancelled; a first failure followed by a successful
\* second attempt writes status completed and publishes Completed.
C7_RetryOnce ==
  [][\A t \in Ids :
       LET o == outcomes[t]
           first_failed ==
             Len(o) >= 1 /\ o[1].kind \in {"exception", "is_error"}
       IN
         /\ calls'[t] <= 2
         /\ (calls[t] = 1 /\ calls'[t] = 2) =>
              /\ Len(o) = 1 /\ first_failed
              /\ unit[t].pc = "sleep" /\ ~unit[t].cancel
         /\ (first_failed /\ calls'[t] = 1 /\ unit'[t].pc # "sleep") =>
              /\ Len(outcomes'[t]) = 2
              /\ outcomes'[t][2].kind = "cancelled"
         /\ (first_failed /\ outcomes'[t] = Append(o, Outcome("ok", "None")))
              => /\ calls[t] = 2
                 /\ records'[t].status = "completed"
                 /\ Len(events'[t]) = Len(events[t]) + 1
                 /\ events'[t][Len(events'[t])].type = "Completed"]_vars

\* C7 witness: a first attempt failed, the second succeeded, and the task
\* is completed after two provider invocations.
C7_Witness ==
  \E t \in Ids :
    /\ calls[t] = 2
    /\ Len(outcomes[t]) = 2
    /\ outcomes[t][1].kind \in {"exception", "is_error"}
    /\ outcomes[t][2].kind = "ok"
    /\ records[t].status = "completed"
    /\ events[t][Len(events[t])].type = "Completed"
    /\ unit[t].pc = "done"

\* C8 as stated: once the unit of a task whose two attempts both failed is
\* done and no stop_task or recover is under way, the record has status
\* failed with the last failure's message and exactly one Failed event was
\* published.
C8_BothFailedEndsFailed ==
  \A t \in Ids :
    (/\ unit[t].pc = "done"
     /\ rec.pc # "update_status"
     /\ \A s \in Stoppers : stopper[s].pc = "idle"
     /\ Len(outcomes[t]) >= 2
     /\ outcomes[t][1].kind \in {"exception", "is_error"}
     /\ outcomes[t][2].kind \in {"exception", "is_error"}) =>
      /\ records[t].status = "failed"
      /\ records[t].error_message = outcomes[t][2].msg
      /\ Cardinality({i \in 1..Len(events[t]) :
                        events[t][i].type = "Failed"}) = 1

\* C8 amended: when both attempts of a task failed, the unit, unless it is
\* cancelled first, writes status failed with the message of the last
\* failure and publishes a Failed event carrying that message, changing
\* nothing for the callers of start_task; a task never has more than one
\* Failed event, and a unit that ends uncancelled has exactly one.
C8_BothFailedRecordsFailure ==
  [][\A t \in Ids :
       LET o == outcomes[t]
           both_failed ==
             /\ Len(o) = 2
             /\ o[1].kind \in {"exception", "is_error"}
             /\ o[2].kind \in {"exception", "is_error"}
           failed_events(ev) ==
             Cardinality({i \in 1..Len(ev) : ev[i].type = "Failed"})
       IN
         /\ both_failed => calls[t] = 2 /\ calls'[t] = 2
         /\ (both_failed /\ unit[t].pc = "update_status_failed"
               /\ unit'[t].pc # "update_status_failed"
               /\ outcomes'[t] = o) =>
              /\ records'[t].status = "failed"
              /\ records'[t].error_message = o[2].msg
              /\ Len(events'[t]) = Len(events[t]) + 1
              /\ events'[t][Len(events'[t])].type = "Failed"
              /\ events'[t][Len(events'[t])].error_message = o[2].msg
              /\ UNCHANGED call
         /\ failed_events(events'[t]) <= 1
         /\ (both_failed /\ unit[t].pc \in {"heartbeat_stop", "done"}) =>
              failed_events(events[t]) = 1]_vars

\* C8 witness: two attempts failed with different messages and the record
\* is failed with the second one.
C8_Witness ==
  \E t \in Ids :
    /\ unit[t].pc = "done"
    /\ Len(outcomes[t]) = 2
    /\ outcomes[t][1].kind \in {"exception", "is_error"}
    /\ outcomes[t][2].kind \in {"exception", "is_error"}
    /\ outcomes[t][1].msg # outcomes[t][2].msg
    /\ records[t].status = "failed"
    /\ records[t].error_message = outcomes[t][2].msg
    /\ events[t][Len(events[t])].type = "Failed"

\* C9 as stated: after the stream callback raised CostLimitExceeded the
\* provider is not invoked again, and once the unit is done and no
\* stop_task or recover is under way the record has status failed with the
\* exceeded-limit message, a Failed event was published and the persisted
\* cost is greater than task_max_cost.
C9_CostLimitEndsFailed ==
  [][\A t \in Ids :
       /\ (\E i \in 1..Len(outcomes[t]) : outcomes[t][i].kind = "cost_limit")
            => calls'[t] = calls[t]
       /\ (/\ unit'[t].pc = "done"
           /\ rec'.pc # "update_status"
           /\ \A s \in Stoppers : stopper'[s].pc = "idle"
           /\ \E i \in 1..Len(outcomes'[t]) :
                 outcomes'[t][i].kind = "cost_limit") =>
            /\ records'[t].status = "failed"
            /\ records'[t].error_message = COST_MESSAGE
            /\ \E i \in 1..Len(events'[t]) : events'[t][i].type = "Failed"
            /\ records'[t].total_cost > task_max_cost]_vars

\* C9 amended: after the stream callback raised CostLimitExceeded the
\* provider is not invoked again and the persisted cost is greater than
\* task_max_cost; unless the unit is cancelled first, it writes status
\* failed with the exceeded-limit message and publishes a Failed event, so
\* a unit that ends uncancelled has exactly one Failed event.
C9_CostLimitRecordsFailure ==
  [][\A t \in Ids :
       LET o == outcomes[t]
           hit == Len(o) >= 1 /\ o[Len(o)].kind = "cost_limit"
           failed_events(ev) ==
             Cardinality({i \in 1..Len(ev) : ev[i].type = "Failed"})
       IN
         /\ (\E i \in 1..Len(o) : o[i].kind = "cost_limit") =>
              /\ calls'[t] = calls[t]
              /\ records[t].total_cost > task_max_cost
              /\ records'[t].total_cost > task_max_cost
         /\ (hit /\ unit[t].pc = "update_status_cost"
               /\ unit'[t].pc # "update_status_cost"
               /\ outcomes'[t] = o) =>
              /\ records'[t].status = "failed"
              /\ records'[t].error_message = COST_MESSAGE
              /\ Len(events'[t]) = Len(events[t]) + 1
              /\ events'[t][Len(events'[t])].type = "Failed"
              /\ events'[t][Len(events'[t])].error_message = COST_MESSAGE
         /\ (hit /\ unit[t].pc \in {"heartbeat_stop", "done"}) =>
              failed_events(events[t]) = 1]_vars

\* C9 witness: the first attempt ran over the limit; the task is failed
\* with the exceeded-limit message after a single provider invocation.
C9_Witness ==
  \E t \in Ids :
    /\ unit[t].pc = "done"
    /\ calls[t] = 1
    /\ outcomes[t] = <<Outcome("cost_limit", COST_MESSAGE)>>
    /\ records[t].status = "failed"
    /\ records[t].error_message = COST_MESSAGE
    /\ records[t].total_cost > task_max_cost
    /\ events[t][Len(events[t])].type = "Failed"

\* C10: an exception raised by the stream callback during execute leaves
\* execute as that exception; it is not turned into a returned response.
C10_CallbackExceptionPropagates ==
  (llm.pc = "done" /\ llm.callback_exc # "None") =>
    /\ llm.outcome.kind = "raise"
    /\ llm.outcome.exc = llm.callback_exc

\* C11 as stated: from the step that delivers the cancellation to a unit
\* on, no provider call is made for the task, its status is not set to
\* failed by the unit, and no Completed or Failed event is published.
C11_CancelledUnitDoesNothing ==
  [][\A t \in Ids :
       LET o == outcomes'[t]
           terminal_events(ev) ==
             Cardinality({i \in 1..Len(ev) :
                            ev[i].type \in {"Completed", "Failed"}})
       IN
         (Len(o) >= 1 /\ o[Len(o)].kind = "cancelled") =>
           /\ calls'[t] = calls[t]
           /\ terminal_events(events'[t]) = terminal_events(events[t])
           /\ (records[t].status # "failed" /\ records'[t].status = "failed")
                => records'[t].error_message = RESTART_MESSAGE]_vars

\* C11 amended: a cancelled unit takes no step but its cleanup: no provider
\* call, no repository write begun and no Completed or Failed event from
\* the delivery of the cancellation on; only the write the unit was
\* suspended in when the cancellation arrived may still be committed.
C11_CancelledUnitOnlyCleansUp ==
  [][\A t \in Ids :
       LET o == outcomes'[t]
           terminal_events(ev) ==
             Cardinality({i \in 1..Len(ev) :
                            ev[i].type \in {"Completed", "Failed"}})
           delivery == outcomes'[t] # outcomes[t]
       IN
         (Len(o) >= 1 /\ o[Len(o)].kind = "cancelled") =>
           /\ calls'[t] = calls[t]
           /\ terminal_events(events'[t]) = terminal_events(events[t])
           /\ unit'[t].pc \in {"heartbeat_stop", "done"}
           /\ (records[t].status # "failed" /\ records'[t].status = "failed")
                => \/ records'[t].error_message = RESTART_MESSAGE
                   \/ /\ delivery
                      /\ unit[t].pc \in {"update_status_cost",
                                         "update_status_failed"}]_vars

\* C11 witness: a unit was cancelled during its retry delay and the task
\* is stopped after one provider call, with no Completed or Failed event.
C11_Witness ==
  \E t \in Ids :
    /\ Len(outcomes[t]) = 2
    /\ outcomes[t][1].kind \in {"exception", "is_error"}
    /\ outcomes[t][2].kind = "cancelled"
    /\ calls[t] = 1
    /\ unit[t].pc = "done"
    /\ records[t].status = "stopped"
    /\ Len(events[t]) = 1

\* C12: when stop_task returns for a task that was running when it was
\* called, the id is not in the running-tasks map, no heartbeat supervisor
\* is attached, the record's status is stopped, and no step of stop_task
\* has published an event.
C12_StopTaskPostcondition ==
  [][\A s \in Stoppers :
       LET t == stopper[s].task_id IN
         /\ stopper'[s] # stopper[s] => events' = events
         /\ (stopper[s].pc = "update_status" /\ stopper'[s].pc = "idle") =>
              /\ t \notin running_tasks'
              /\ t \notin hb_tasks'
              /\ hb_loop'[t] \notin {"sleep", "get"}
              /\ records'[t].status = "stopped"]_vars

\* C12 witness: stop_task has returned for a task whose unit was in its
\* provider call; the task is stopped with no handle and no supervisor.
C12_Witness ==
  \E t \in Ids :
    /\ stop_returns[t] = 1
    /\ calls[t] >= 1
    /\ records[t].status = "stopped"
    /\ t \notin running_tasks /\ t \notin hb_tasks
    /\ unit[t].pc = "done"
    /\ \A s \in Stoppers : stopper[s].pc = "idle"

\* C13: stop_task on a task that is already stopped, already completed or
\* unknown goes through without error, waiting at most for a unit that has
\* not ended yet; on an unknown id it changes nothing, on a stopped record
\* it leaves the record as the first call left it, and otherwise the record
\* has status stopped when it returns.
C13_StopTaskIdempotent ==
  [][\A s \in Stoppers :
       LET t == stopper[s].task_id
           u == stopper'[s].task_id
       IN
         /\ (stopper[s].pc = "idle" /\ stopper'[s].pc # "idle"
               /\ records[u].status # "running") =>
              /\ stopper'[s].pc \in {"heartbeat_stop", "update_status"}
                   \/ unit[u].pc \notin {"none", "done"}
              /\ records' = records /\ events' = events
         /\ (stopper[s].pc = "update_status" /\ stopper'[s].pc = "idle") =>
              /\ records[t].status = "none" => records' = records
              /\ records[t].status = "stopped" =>
                   [records'[t] EXCEPT !.idle = 0]
                     = [records[t] EXCEPT !.idle = 0]
              /\ records[t].status # "none" =>
                   records'[t].status = "stopped"
              /\ events' = events]_vars

\* C13 witness: stop_task has returned twice for one task, which is
\* stopped, and once for an id that has no record.
C13_Witness ==
  \E t, u \in Ids :
    /\ stop_returns[t] = 2
    /\ records[t].status = "stopped"
    /\ stop_returns[u] >= 1
    /\ records[u].status = "none"
    /\ \A s \in Stoppers : stopper[s].pc = "idle"

\* C14: however an execution unit ended, once it has ended its heartbeat
\* supervisor is detached and its entry is gone from the running-tasks map.
C14_EndedUnitReleased ==
  \A t \in Ids :
    unit[t].pc = "done" => (t \notin hb_tasks /\ t \notin running_tasks)

\* C15: for every task the Started event comes before any Progress,
\* Completed, Failed or Timeout event of that task, and before any streamed
\* cost update of that task is persisted.
C15_StartedFirst ==
  \A t \in Ids :
    /\ \A i \in 1..Len(events[t]) :
         events[t][i].type \in {"Progress", "Completed", "Failed", "Timeout"}
           => (i > 1 /\ events[t][1].type = "Started")
    /\ (records[t].total_turns > 0 \/ records[t].total_cost > 0)
         => (events[t] # <<>> /\ events[t][1].type = "Started")

\* a task that streamed a cost update, got Progress from its supervisor and
\* completed
C15_Witness ==
  \E t \in Ids :
    /\ records[t].total_turns > 0
    /\ \E i \in 1..Len(events[t]) : events[t][i].type = "Progress"
    /\ \E i \in 1..Len(events[t]) : events[t][i].type = "Completed"

\* C20: a supervisor tick that finds the record missing or not running ends
\* the supervisor and publishes nothing; one that finds the task running and
\* idle for longer than the timeout publishes Timeout and ends the
\* supervisor; any other tick publishes Progress and the supervisor keeps
\* ticking.  Progress and Timeout are published by such ticks only.
C20_TickOutcome ==
  [][\A t \in Ids :
       /\ (hb_loop[t] = "get" /\ hb_loop'[t] # "get"
             /\ UNCHANGED <<unit, stopper>>)
          => IF records[t].status # "running"
             THEN /\ events'[t] = events[t]
                  /\ hb_loop'[t] = "done"
                  /\ t \notin hb_tasks'
             ELSE /\ Len(events'[t]) = Len(events[t]) + 1
                  /\ SubSeq(events'[t], 1, Len(events[t])) = events[t]
                  /\ IF records[t].idle > hb_timeout
                     THEN /\ events'[t][Len(events'[t])].type = "Timeout"
                          /\ hb_loop'[t] = "done"
                          /\ t \notin hb_tasks'
                     ELSE /\ events'[t][Len(events'[t])].type = "Progress"
                          /\ hb_loop'[t] = "sleep"
                          /\ t \in hb_tasks'
       /\ (/\ Len(events'[t]) > Len(events[t])
           /\ events'[t][Len(events'[t])].type \in {"Progress", "Timeout"})
          => (hb_loop[t] = "get" /\ records[t].status = "running")
    ]_vars

\* a supervisor that published Progress on one tick and on a later tick
\* found the record failed by recover: it ended without a further event
\* while the unit was still executing
C20_Witness ==
  \E t \in Ids :
    /\ hb_loop[t] = "done"
    /\ t \notin hb_tasks
    /\ unit[t].pc \notin {"none", "created", "done", "heartbeat_stop"}
    /\ records[t].status = "failed"
    /\ events[t] # <<>>
    /\ events[t][Len(events[t])].type = "Progress"

\* C16: for every task whose execution unit has ended, a Completed event was
\* published for the task exactly when the record's status is completed
\* (read when no stop_task and no recover is in flight).
C16_CompletedEventIffCompleted ==
  \A t \in Ids :
    (/\ unit[t].pc = "done"
     /\ rec.pc # "update_status"
     /\ \A s \in Stoppers : stopper[s].pc = "idle")
      => ((\E i \in 1..Len(events[t]) : events[t][i].type = "Completed")
            <=> records[t].status = "completed")

C18_RecoverFrame ==
  [][(rec' # rec)
       => /\ events' = events
          /\ \A t \in Ids :
               records[t].status # "running" => records'[t] = records[t]
          /\ (rec.pc = "idle" /\ \A t \in Ids : records[t].status # "running")
               => (rec'.pc = "done" /\ records' = records)
    ]_vars

\* recover has returned after marking an orphan, next to a completed record
C18_Witness ==
  /\ rec.pc = "done"
  /\ rec.began # {}
  /\ \E t \in Ids : records[t].status = "completed"

\* C19: when start_task fails after the record was persisted the launch is
\* cleaned up, so no record is left in status running without an execution
\* unit; when persisting the record fails nothing is published or spawned.
C19_FailedLaunchCleanedUp ==
  \A t \in Ids :
    /\ records[t].status = "running" => unit[t].pc \notin {"none", "done"}
    /\ records[t].status = "none" => (events[t] = <<>> /\ unit[t].pc = "none")

\* C21: a supervisor publishes at most one Timeout event; once it has, the
\* supervisor has terminated and is gone from the service's tracking map,
\* and no Progress or Timeout event follows for that task.
C21_OneTimeout ==
  \A t \in Ids :
    \A i \in 1..Len(events[t]) :
      events[t][i].type = "Timeout"
        => /\ hb_loop[t] = "done"
           /\ t \notin hb_tasks
           /\ \A j \in 1..Len(events[t]) :
                j > i => events[t][j].type \notin {"Progress", "Timeout"}

\* a task that got Progress, then Timeout, and completed afterwards
C21_Witness ==
  \E t \in Ids :
    \E i \in 1..Len(events[t]) :
      /\ events[t][i].type = "Timeout"
      /\ i > 1
      /\ events[t][i - 1].type = "Progress"
      /\ events[t][Len(events[t])].type = "Completed"

\* C22: the heartbeat supervisor only observes: none of its steps (the wake
\* from sleep, the silent exit, publishing Progress, publishing Timeout)
\* changes a task record (the passing of time apart), an execution unit or
\* the running-tasks map; after a Timeout the status is still running and
\* the handle is registered as it was.
C22_SupervisorOnlyObserves ==
  [][\A t \in Ids :
       LET woke == hb_loop[t] = "sleep" /\ hb_loop'[t] = "get"
           published ==
             /\ Len(events'[t]) > Len(events[t])
             /\ events'[t][Len(events'[t])].type \in {"Progress", "Timeout"}
           left == /\ hb_loop[t] = "get" /\ hb_loop'[t] = "done"
                   /\ stopper' = stopper
                   /\ unit'[t].pc = unit[t].pc
       IN  /\ (woke \/ published \/ left)
              => /\ \A u \in Ids : [records'[u] EXCEPT !.idle = 0]
                                      = [records[u] EXCEPT !.idle = 0]
                 /\ unit' = unit
                 /\ running_tasks' = running_tasks
           /\ (published /\ events'[t][Len(events'[t])].type = "Timeout")
              => records'[t].status = "running"
    ]_vars

\* Timeout was the last event of a task that is still running, with its
\* handle registered and its unit in the provider call
C22_Witness ==
  \E t \in Ids :
    /\ events[t] # <<>>
    /\ events[t][Len(events[t])].type = "Timeout"
    /\ records[t].status = "running"
    /\ t \in running_tasks
    /\ unit[t].pc = "execute"

C24_OneTrackedLoopPerTask ==
  LET Live(l) == hs_loops[l].pc \in {"created", "sleep", "get"}
                   /\ ~hs_loops[l].cancel
  IN  /\ \A l, k \in Loops :
           (Live(l) /\ Live(k) /\ hs_loops[l].task_id = hs_loops[k].task_id)
             => l = k
      /\ \A l \in Loops : Live(l) => hs_tasks[hs_loops[l].task_id] = l

\* C25: when run_command fails with an ordinary error execute does not
\* raise: it returns a response with is_error true and the error's message;
\* a cancellation is not turned into a response and propagates.
C25_TransportErrorReturned ==
  llm.pc = "done" =>
    /\ llm.transport_exc \in TransportErrors
         => /\ llm.outcome.kind = "return"
            /\ llm.outcome.response.is_error
            /\ llm.outcome.response.error_message = llm.transport_exc
    /\ llm.transport_exc = "CancelledError"
         => /\ llm.outcome.kind = "raise"
            /\ llm.outcome.exc = "CancelledError"

\* an execute that had streamed an event when the transport failed
C25_Witness ==
  /\ llm.pc = "done"
  /\ llm.streamed > 0
  /\ llm.transport_exc \in TransportErrors
  /\ llm.outcome.kind = "return"

\* C26: update_progress loses no update: whatever the order and overlap of
\* the calls on a record, its accumulated cost is the cost it had before
\* plus the deltas of all the calls whose statement has run, and its turn
\* counter has grown by one per such call.
C26_NoLostUpdate ==
  \A t \in Ids :
    records[t].status # "none"
      => /\ records[t].total_cost = written[t].cost
         /\ records[t].total_turns = written[t].turns

\* two calls on one record are in progress at once, both statements have
\* run and both calls are suspended in their commit
C26_Witness ==
  \E t \in Ids :
    /\ records[t].status # "none"
    /\ written[t].turns = 2
    /\ written[t].cost = 2 * MaxDelta
    /\ \A w \in Writers : /\ repo_calls[w].pc = "commit"
                           /\ repo_calls[w].task_id = t

\* C30: an update_progress call without a last_output value leaves the
\* stored last_output as it was, and still adds the cost delta, adds one to
\* the turn counter and refreshes last_activity; a call with a value writes
\* it.
C30_LastOutputWrittenIfProvided ==
  [][\A w \in Writers :
       LET t == repo_calls[w].task_id IN
         (/\ repo_calls[w].pc = "execute"
          /\ repo_calls'[w].pc = "commit"
          /\ records[t].status # "none")
           => /\ records'[t].last_output =
                   IF repo_calls[w].last_output = "None"
                   THEN records[t].last_output
                   ELSE repo_calls[w].last_output
              /\ records'[t].total_cost =
                   records[t].total_cost + repo_calls[w].cost
              /\ records'[t].total_turns = records[t].total_turns + 1
              /\ records'[t].idle = 0
    ]_vars

\* C27: the accumulated cost of a task record never decreases: no step of
\* update_progress, update_status, stop_task, recover or the retry lowers
\* or resets it.
C27_CostNeverDecreases ==
  [][\A t \in Ids :
       records[t].status # "none"
         => /\ records'[t].status # "none"
            /\ records'[t].total_cost >= records[t].total_cost
    ]_vars

\* a task streamed cost in its first attempt, was retried, streamed again
\* and was failed over the cost limit
C27_Witness ==
  \E t \in Ids :
    /\ calls[t] = 2
    /\ records[t].status = "failed"
    /\ records[t].total_cost > task_max_cost
    /\ records[t].total_turns >= 2

\* C28: the steps of stop_task on a task A leave every other task B alone:
\* B's record, B's unit of work with its cancellation flag, B's handle in
\* the running-tasks map, B's heartbeat supervisor and B's events are the
\* same after the step, so that B goes on to the outcome of its own run.
C28_StopLeavesOthersAlone ==
  [][\A s \in Stoppers :
       stopper'[s] # stopper[s]
         => LET A == IF stopper[s].task_id # 0 THEN stopper[s].task_id
                     ELSE stopper'[s].task_id
            IN \A B \in Ids \ {A} :
                 /\ records'[B] = records[B]
                 /\ unit'[B] = unit[B]
                 /\ (B \in running_tasks') = (B \in running_tasks)
                 /\ (B \in hb_tasks') = (B \in hb_tasks)
                 /\ hb_loop'[B] = hb_loop[B]
                 /\ events'[B] = events[B]
    ]_vars

\* stop_task has cancelled A, awaited it and stopped its heartbeat, while B,
\* admitted beside A, keeps its handle and its supervisor and has come back
\* from the provider on its way to completed
C28_Witness ==
  \E A \in Ids, B \in Ids :
    /\ A # B
    /\ stopper[1] = [pc |-> "update_status", task_id |-> A]
    /\ unit[A].pc = "done" /\ A \notin running_tasks /\ A \notin hb_tasks
    /\ records[B].status = "running"
    /\ B \in running_tasks /\ B \in hb_tasks
    /\ unit[B].pc = "update_status_completed" /\ ~unit[B].cancel

\* C29: in every state where no start_task call, no stop_task call and no
\* finalisation of a unit is part-way through, the ids in the running-tasks
\* map are exactly the ids of the records with status running: no running
\* record without a handle, no handle for a record that is not running.
C29_HandlesAreRunningRecords ==
  ( /\ \A c \in Callers : call[c].pc = "idle"
    /\ \A s \in Stoppers : stopper[s].pc = "idle"
    /\ \A t \in Ids : unit[t].pc # "heartbeat_stop"
    /\ rec.pc # "update_status" )
    => running_tasks = {t \in Ids : records[t].status = "running"}

\* C31: every Failed event carries the task's last observed output: its
\* last_output is the last_output stored on the task record when the task
\* failed (the empty string when the record has none), for the cost-limit
\* failure and for the failure after the retry.  Nothing writes the
\* record's last_output once the Failed event is out.
C31_FailedCarriesLastOutput ==
  \A t \in Ids :
    \A i \in DOMAIN events[t] :
      events[t][i].type = "Failed"
        => events[t][i].last_output =
             (IF records[t].last_output = "None" THEN ""
              ELSE records[t].last_output)

\* C32: the provider is called again only because the provider call failed:
\* once a step after the provider's successful response has failed, the
\* provider is not invoked again for that task, and no step of the unit
\* sets a record that is completed to failed.
C32_RetryOnlyForProviderFailure ==
  [][\A t \in Ids :
       /\ (\E i \in DOMAIN outcomes[t] : outcomes[t][i].kind = "step_failed")
            => calls'[t] = calls[t]
       /\ (records[t].status = "completed" /\ unit'[t] # unit[t])
            => records'[t].status # "failed"
    ]_vars

\* C33: when the fresh task id is the id of an existing record, so that
\* create fails, start_task draws a new id and tries again instead of
\* failing: no start_task call ends with the error of the INSERT.  The
\* existing record is not modified.
C33_CollisionRetried ==
  \A c \in Callers : call[c].result # "IntegrityError"

\* C34: no start_task is admitted before recover has completed, so recover
\* never marks as failed a task that this manager admitted and whose unit
\* is still executing.
C34_RecoverSparesOwnTasks ==
  [][\A t \in Ids :
       ( /\ rec' # rec
         /\ records[t].status = "running"
         /\ records'[t].status = "failed"
         /\ records'[t].error_message = RESTART_MESSAGE )
         => unit[t].pc \in {"none", "done"}
    ]_vars

\* C35: on success the unit stores, in one update_status call, status
\* completed with the response content cut to its first summary_limit
\* characters, the response's session id and the collected commits; the
\* Completed event carries the same commits and summary, and as cost the
\* local streamed-cost counter plus the cost of the response.
C35_SuccessStoredAndPublished ==
  fin.pc = "done"
    => LET content == fin.response.content
           summary == fin.row.result_summary
       IN /\ fin.status_calls = 1
          /\ fin.row.status = "completed"
          /\ Len(summary) = (IF Len(content) < summary_limit
                             THEN Len(content) ELSE summary_limit)
          /\ \A i \in 1..Len(summary) : summary[i] = content[i]
          /\ fin.row.session_id = fin.response.session_id
          /\ json_loads(fin.row.commits_json) = fin.commits
          /\ Len(fin.events) = 1
          /\ fin.events[1].type = "Completed"
          /\ fin.events[1].commits = fin.commits
          /\ fin.events[1].result_summary = summary
          /\ fin.events[1].cost = fin.accumulated_cost + fin.response.cost

\* a success whose content is longer than the limit, with streamed cost, a
\* response cost, commits and a new session id
C35_Witness ==
  /\ fin.pc = "done"
  /\ Len(fin.response.content) > summary_limit
  /\ fin.accumulated_cost > 0 /\ fin.response.cost > 0
  /\ Len(fin.commits) = 2
  /\ fin.row.session_id = "sess-1"

\* C36: get_task_for_continue(path) returns the record with the latest
\* finish timestamp among the records of exactly that directory whose
\* status is completed or failed, and nothing when there is none; it never
\* returns a running or stopped record or a record of another directory.
C36_ContinueReturnsLatestFinished ==
  query.pc = "returned"
    => LET table == query.table
           r == query.result
           eligible == {t \in Ids :
                          /\ table[t].project_path = query.path
                          /\ table[t].status \in {"completed", "failed"}}
       IN IF r = 0 THEN eligible = {}
          ELSE /\ table[r].project_path = query.path
               /\ table[r].status \notin {"running", "stopped", "none"}
               /\ r \in eligible
               /\ \A t \in eligible :
                    table[t].finished_at <= table[r].finished_at

\* a record is returned although a stopped record of the same directory
\* has a later finish timestamp
C36_Witness ==
  /\ query.pc = "returned"
  /\ query.result # 0
  /\ \E u \in Ids :
       /\ query.table[u].project_path = query.path
       /\ query.table[u].status = "stopped"
       /\ query.table[u].finished_at > query.table[query.result].finished_at

\* C37: every admitted task eventually leaves status running: when every
\* provider call returns or raises and the repository and the bus do not
\* fail, the unit makes at most two attempts, the record reaches
\* completed, failed or stopped, and the task's handle and supervisor are
\* released.
C37_RunningEventuallyEnds ==
  /\ [](\A t \in Ids : calls[t] <= 2)
  /\ \A t \in Ids :
       (records[t].status = "running")
         ~> ( /\ records[t].status \in Terminal
              /\ t \notin running_tasks
              /\ t \notin hb_tasks
              /\ unit[t].pc = "done" )

\* a task that failed once, was retried and completed, with nothing left
\* registered for it
C37_Witness ==
  \E t \in Ids :
    /\ calls[t] = 2
    /\ records[t].status = "completed"
    /\ unit[t].pc = "done"
    /\ t \notin running_tasks /\ t \notin hb_tasks

\* C38: for every task at most one terminal event, Completed or Failed, is
\* ever published, over all attempts and all interleavings with stop_task.
C38_OneTerminalEvent ==
  \A t \in Ids :
    Cardinality({i \in DOMAIN events[t] :
                   events[t][i].type \in {"Completed", "Failed"}}) <= 1

\* a task whose first attempt failed and whose retry ran into the cost
\* limit: two failed attempts, one Failed event
C38_Witness ==
  \E t \in Ids :
    /\ calls[t] = 2
    /\ unit[t].pc = "done"
    /\ Len(outcomes[t]) = 2
    /\ outcomes[t][1].kind \in {"exception", "is_error"}
    /\ outcomes[t][2].kind = "cost_limit"
    /\ Cardinality({i \in DOMAIN events[t] :
                      events[t][i].type = "Failed"}) = 1

\* C39: the cost ceiling applies to the whole task.  The retry leaves the
\* unit's local cost counter as the first attempt left it, so that the
\* limit check of the second attempt counts what the first one streamed;
\* and the counter of a unit inside _run_task is the sum of the cost deltas
\* update_progress has persisted for the task, ahead of it only by the
\* delta of the update_progress call the unit is suspended in.
C39_CostCounterSpansAttempts ==
  [][\A t \in Ids :
       /\ (unit[t].pc = "sleep" /\ unit'[t].pc = "execute")
            => unit'[t].accumulated_cost = unit[t].accumulated_cost
       /\ unit'[t].pc \notin {"none", "created", "heartbeat_stop", "done"}
            => unit'[t].accumulated_cost =
                 records'[t].total_cost
                   + (IF unit'[t].pc = "update_progress"
                      THEN unit'[t].pend_cost ELSE 0)
       /\ ( /\ unit[t].pc = "update_progress"
            /\ unit'[t].pc \in {"execute", "update_status_cost"} )
            => ( unit'[t].pc = "update_status_cost"
                   <=> records'[t].total_cost > task_max_cost )
    ]_vars

\* the first attempt failed and the task, two stream events in all, went
\* over the limit during its retry
C39_Witness ==
  \E t \in Ids :
    /\ calls[t] = 2
    /\ unit[t].pc = "update_status_cost"
    /\ unit[t].attempt = 1
    /\ records[t].total_turns = 2
    /\ records[t].total_cost = task_max_cost + 1

\* C40: after stop(task_id) has returned, a supervisor that was attached
\* for that task when stop was called publishes no further Progress or
\* Timeout event, whatever it was doing when stop was called.
C40_NoEventAfterStop ==
  [][\A l \in Loops :
       (hs_loops[l].stopped /\ hs_loops'[l] # hs_loops[l])
         => events' = events
    ]_vars

====
